---- MODULE Spec2Model ----
(***************************************************************************)
(* flarecert: the certificate lifecycle of internal/certificate (Manager), *)
(* the operator prompt of internal/ui and the on-disk store of             *)
(* internal/utils, as state machines.                                      *)
(*                                                                         *)
(* Strings are sequences of one-character strings, so that trimming,       *)
(* lower-casing, prefix tests and splitting are computed and not assumed.  *)
(***************************************************************************)
EXTENDS Integers, Sequences, FiniteSets, TLC

VARIABLES
    \* ---- DomainsMatch (pure function, applied to drawn inputs)
    dmA, dmB, dmPc, dmResult,
    \* ---- ui.AskUserConfirmation: the input stream and the call's position
    stdin, askPos, askPc, askResult, askPrompts, askSeen,
    \* ---- certificate.Manager.GenerateCertificate on one slot
    pc, forceRenew, domains, now, layout, current, archive, action, question,
    asks, cert, result, issued, faults,
    \* ---- history of the run in progress (what the run has done so far)
    currentAtStart, archivedFiles, obtainOk, obtainFailed, wroteNew,
    configOk, contacted, layoutAtStart,
    \* ---- utils.CleanupOldArchives: the archive before the call, and the call
    archiveAtStart, cleanupCall,
    \* ---- dns.CloudflareProvider and the Cloudflare account behind it
    zones, records, dnsRecords, nextId, lastOp, opCount,
    \* ---- cmd renew: the selected slots, the loop's position, the attempts
    renewQueue, renewIdx, renewLog

dmVars  == <<dmA, dmB, dmPc, dmResult>>
askVars == <<stdin, askPos, askPc, askResult, askPrompts, askSeen>>
mgrVars == <<pc, forceRenew, domains, now, layout, current, archive, action,
             question, asks, cert, result, issued, faults>>
histVars == <<currentAtStart, archivedFiles, obtainOk, obtainFailed, wroteNew,
              configOk, contacted, layoutAtStart>>
dnsVars == <<zones, records, dnsRecords, nextId, lastOp, opCount>>
renewVars == <<renewQueue, renewIdx, renewLog>>
extVars == <<archiveAtStart, cleanupCall, dnsVars, renewVars>>
vars == <<dmVars, askVars, mgrVars, histVars, extVars>>

-----------------------------------------------------------------------------
(* Strings *)

\* strings.ToLower on one character (the letters the model's inputs use)
LowerOf(c) ==
    CASE c = "A" -> "a"
      [] c = "B" -> "b"
      [] c = "E" -> "e"
      [] c = "N" -> "n"
      [] c = "O" -> "o"
      [] c = "S" -> "s"
      [] c = "W" -> "w"
      [] c = "Y" -> "y"
      [] OTHER  -> c

\* strings.ToLower
ToLower(s) == [i \in 1..Len(s) |-> LowerOf(s[i])]

\* unicode.IsSpace on the characters the inputs use
IsSpace(c) == c \in {" ", "\t", "\r", "\n"}

\* strings.TrimSpace: drop the leading and the trailing white space
TrimSpace(s) ==
    LET keep == {i \in 1..Len(s) : ~IsSpace(s[i])}
    IN  IF keep = {} THEN <<>>
        ELSE LET lo == CHOOSE i \in keep : \A j \in keep : i <= j
                 hi == CHOOSE i \in keep : \A j \in keep : j <= i
             IN  SubSeq(s, lo, hi)

\* the elements of a sequence
Range(s) == {s[i] : i \in 1..Len(s)}

\* every sequence over S of length at most n
SeqsUpTo(S, n) == UNION {[1..k -> S] : k \in 0..n}

-----------------------------------------------------------------------------
(* certificate.DomainsMatch *)

\* the map keys the first loop of DomainsMatch inserts
NormKeys(ds) == {ToLower(TrimSpace(ds[i])) : i \in 1..Len(ds)}

DomainsMatchNoSizeCheck(domains1, domains2) ==
    LET set1 == NormKeys(domains1)
        set2 == NormKeys(domains2)
    IN  \A d \in set1 : d \in set2

\* DomainsMatch: two maps of normalised names, the same size, and every key of
\* the first a key of the second
DomainsMatch(domains1, domains2) ==
    LET set1 == NormKeys(domains1)
        set2 == NormKeys(domains2)
    IN  IF Cardinality(set1) # Cardinality(set2) THEN FALSE
        ELSE \A d \in set1 : d \in set2

-----------------------------------------------------------------------------
(* ui.AskUserConfirmation *)

\* what reader.ReadString('\n') returns at position pos of the stream: the next
\* complete line with its delimiter, or, past the last complete line, the
\* unterminated rest of the stream together with the read error (io.EOF)
ReadString(stream, pos) ==
    IF pos <= Len(stream.lines)
    THEN [err |-> FALSE, data |-> stream.lines[pos] \o <<"\n">>]
    ELSE [err |-> TRUE,  data |-> stream.tail]

AnswerEmptyIsAgain(response) ==
    LET r == ToLower(TrimSpace(response))
    IN  CASE r \in {<<"y">>, <<"y", "e", "s">>} -> "yes"
          [] r \in {<<"n">>, <<"n", "o">>} -> "no"
          [] OTHER -> "again"

\* the switch of AskUserConfirmation on the trimmed, lower-cased response
Answer(response) ==
    LET r == ToLower(TrimSpace(response))
    IN  CASE r \in {<<"y">>, <<"y", "e", "s">>} -> "yes"
          [] r \in {<<"n">>, <<"n", "o">>, <<>>} -> "no"
          [] OTHER -> "again"

\* one iteration of the for loop of AskUserConfirmation: print the prompt, read
\* a line, return on a read error or a recognised answer, loop otherwise
AskRead ==
    /\ askPc = "reading"
    /\ LET r == ReadString(stdin, askPos)
       IN  /\ askPrompts' = askPrompts + 1
           /\ askSeen' = r
           /\ IF r.err
              THEN /\ askResult' = FALSE
                   /\ askPc' = "returned"
                   /\ askPos' = askPos
              ELSE /\ askPos' = askPos + 1
                   /\ CASE Answer(r.data) = "yes" ->
                             askResult' = TRUE /\ askPc' = "returned"
                        [] Answer(r.data) = "no" ->
                             askResult' = FALSE /\ askPc' = "returned"
                        [] OTHER ->
                             askResult' = askResult /\ askPc' = "reading"
    /\ UNCHANGED stdin

-----------------------------------------------------------------------------
(* Bounds and program constants *)

\* file-system operations (mkdir, rename, write, remove) that fail in one behaviour
MaxFaults == 2

\* manager.go: daysRemaining := int(expiresAt.Sub(now).Hours() / 24)
HoursPerDay == 24
\* manager.go: else if daysRemaining <= 30
RenewSoonDays == 30
\* manager.go: utils.CleanupOldArchives(paths.ArchiveDir, 30)
RetentionDays == 30
\* ValidateDomainName: len(part) > 63
MaxLabelLen == 63

-----------------------------------------------------------------------------
(* Domain names and the slot's files *)

D_ab     == <<"a", ".", "b">>
D_AB     == <<"A", ".", "B">>
D_ab_sp  == <<" ", "a", ".", "b">>
D_wab    == <<"w", ".", "a", ".", "b">>
D_starab == <<"*", ".", "a", ".", "b">>
D_single == <<"a", "b">>
D_empty  == <<>>

\* the domain lists a caller passes to GenerateCertificate
RequestChoices ==
    { <<>>, <<D_single>>, <<D_ab, D_empty>>,
      <<D_ab>>, <<D_AB>>, <<D_ab, D_wab>>, <<D_wab, D_ab, D_ab>>, <<D_starab, D_ab>> }

FileNames == {"cert.pem", "privkey.pem", "chain.pem", "fullchain.pem", "cert.json"}
\* the four files saveCertificateFiles writes
SavedFiles == {"cert.pem", "privkey.pem", "chain.pem", "fullchain.pem"}

NoFiles == [f \in {} |-> f]
NoCert  == [gen |-> 0, cn |-> <<>>, dnsNames |-> <<>>, notAfter |-> 0]

\* the content of cert.pem holding certificate c, written at time t
CertFile(c, t) ==
    [part |-> "cert.pem", gen |-> c.gen, form |-> "ok", cn |-> c.cn,
     dnsNames |-> c.dnsNames, notAfter |-> c.notAfter, mtime |-> t]
\* the content of one of the other files of generation g, written at time t
PartFile(f, g, t) == [part |-> f, gen |-> g, form |-> "ok", mtime |-> t]
\* cert.json as SaveCertificateMetadata writes it
MetaFile(g, t, count) ==
    [part |-> "cert.json", gen |-> g, form |-> "ok", mtime |-> t,
     renewalCount |-> count]
\* what a failed os.WriteFile can leave behind: the file created or truncated
PartialFile(f, g, t) == [part |-> f, gen |-> g, form |-> "partial", mtime |-> t]

Restrict(fn, S) == [x \in S |-> fn[x]]

HasPrefix(s, p) == Len(s) >= Len(p) /\ SubSeq(s, 1, Len(p)) = p

\* strings.Split(s, c) with a one-character separator
Split(s, c) ==
    LET F[i \in 0..Len(s)] ==
            IF i = 0 THEN << <<>> >>
            ELSE LET prev == F[i - 1]
                 IN  IF s[i] = c THEN Append(prev, <<>>)
                     ELSE [prev EXCEPT ![Len(prev)] = Append(@, s[i])]
    IN  F[Len(s)]

\* ValidateDomainName that only rejects the empty string
ValidateDomainNameNonEmpty(domain) ==
    domain # <<>>

\* utils.ValidateDomainName: TRUE when it returns nil
ValidateDomainName(domain) ==
    IF domain = <<>> THEN FALSE
    ELSE LET d == IF HasPrefix(domain, <<"*", ".">>)
                  THEN SubSeq(domain, 3, Len(domain)) ELSE domain
             parts == Split(d, ".")
         IN  /\ " " \notin Range(d)
             /\ Len(parts) >= 2
             /\ \A i \in 1..Len(parts) :
                    parts[i] # <<>> /\ Len(parts[i]) <= MaxLabelLen

\* the first occurrence of every element, in order
Dedup(s) ==
    LET F[i \in 0..Len(s)] ==
            IF i = 0 THEN <<>>
            ELSE IF s[i] \in Range(F[i - 1]) THEN F[i - 1]
                 ELSE Append(F[i - 1], s[i])
    IN  F[Len(s)]

ParseCertificateInfoIgnoresErrors(file) ==
    [err |-> FALSE,
     domains |-> Dedup((IF file.cn # <<>> THEN <<file.cn>> ELSE <<>>) \o file.dnsNames),
     expiresAt |-> file.notAfter]

\* acme.ParseCertificateInfo on the content of cert.pem: an error when the file
\* cannot be read, holds no PEM block or holds no X.509 certificate; otherwise
\* the common name followed by the DNS names, without repetitions, and NotAfter
ParseCertificateInfo(file) ==
    IF file.form # "ok"
    THEN [err |-> TRUE, domains |-> <<>>, expiresAt |-> 0]
    ELSE [err |-> FALSE,
          domains |-> Dedup((IF file.cn # <<>> THEN <<file.cn>> ELSE <<>>)
                            \o file.dnsNames),
          expiresAt |-> file.notAfter]

-----------------------------------------------------------------------------
(* certificate.Manager.determineAction *)

\* int(x / 24) on a whole number of hours: Go's conversion truncates towards zero
DaysRemaining(expiresAt, t) ==
    LET h == expiresAt - t
    IN  IF h >= 0 THEN h \div HoursPerDay ELSE -((-h) \div HoursPerDay)

Return(a)  == [ret |-> a, ask |-> "none"]
Prompt(q)  == [ret |-> "none", ask |-> q]

MatchingBranchPromptsExpired(expiresAt, t) ==
    IF DaysRemaining(expiresAt, t) <= RenewSoonDays THEN Prompt("renew_now")
    ELSE Prompt("renew_anyway")

MatchingBranchStrictThreshold(expiresAt, t) ==
    IF expiresAt < t THEN Return("Renew")
    ELSE IF DaysRemaining(expiresAt, t) < RenewSoonDays THEN Prompt("renew_now")
    ELSE Prompt("renew_anyway")

\* the branch of determineAction taken when the domains match: expired, expiring
\* within RenewSoonDays days, or still valid
MatchingBranch(expiresAt, t) ==
    IF expiresAt < t THEN Return("Renew")
    ELSE IF DaysRemaining(expiresAt, t) <= RenewSoonDays THEN Prompt("renew_now")
    ELSE Prompt("renew_anyway")

determineActionNoForce(force, cur, doms, t) ==
    IF "cert.pem" \notin DOMAIN cur THEN Return("Renew")
    ELSE LET info == ParseCertificateInfo(cur["cert.pem"])
         IN  IF info.err THEN Return("Renew")
             ELSE IF DomainsMatch(doms, info.domains)
                  THEN MatchingBranch(info.expiresAt, t)
                  ELSE Prompt("replace")

determineActionAsksWhenAbsent(force, cur, doms, t) ==
    IF force THEN Return("Renew")
    ELSE IF "cert.pem" \notin DOMAIN cur THEN Prompt("renew_anyway")
    ELSE LET info == ParseCertificateInfo(cur["cert.pem"])
         IN  IF info.err THEN Return("Renew")
             ELSE IF DomainsMatch(doms, info.domains)
                  THEN MatchingBranch(info.expiresAt, t)
                  ELSE Prompt("replace")

\* determineAction up to its call of AskUserConfirmation: the action it returns
\* at once, or the question it asks
determineAction(force, cur, doms, t) ==
    IF force THEN Return("Renew")
    ELSE IF "cert.pem" \notin DOMAIN cur THEN Return("Renew")
    ELSE LET info == ParseCertificateInfo(cur["cert.pem"])
         IN  IF info.err THEN Return("Renew")
             ELSE IF DomainsMatch(doms, info.domains)
                  THEN MatchingBranch(info.expiresAt, t)
                  ELSE Prompt("replace")

AfterAnswerSkipsOnYes(q, answer) ==
    IF answer THEN "Skip"
    ELSE IF q = "replace" THEN "Replace" ELSE "Renew"

AfterAnswerYesIsRenew(q, answer) ==
    IF ~answer THEN "Skip" ELSE "Renew"

\* determineAction after AskUserConfirmation returned: Skip on no, and on yes
\* Replace for the replace question and Renew for the two renewal questions
AfterAnswer(q, answer) ==
    IF ~answer THEN "Skip"
    ELSE IF q = "replace" THEN "Replace" ELSE "Renew"

-----------------------------------------------------------------------------
(* utils: the archive and the files of current/ *)

\* archive/ maps <<timestamp, original file name>> to the file renamed there;
\* os.Rename replaces a destination that exists
Renamed(cur, arch, t, moved) ==
    LET keys == {<<t, f>> : f \in moved}
    IN  [k \in DOMAIN arch \cup keys |->
            IF k \in keys THEN cur[k[2]] ELSE arch[k]]

\* ArchiveOldCertificate that reports an error when one of the five files is
\* missing
ArchiveOldCertificateNeedsAll(cur, arch, t, failAt, done) ==
    IF "cert.pem" \notin DOMAIN cur
    THEN [current |-> cur, archive |-> arch, moved |-> {}, err |-> FALSE]
    ELSE LET moved == IF failAt = "none" THEN DOMAIN cur ELSE done
         IN  [current |-> Restrict(cur, DOMAIN cur \ moved),
              archive |-> Renamed(cur, arch, t, moved),
              moved   |-> moved,
              err     |-> failAt # "none" \/ DOMAIN cur # FileNames]

\* utils.ArchiveOldCertificate at time t. The files are renamed in the order of
\* a Go map iteration, which is unspecified: failAt is the file whose rename
\* fails ("none" when every rename succeeds) and done the files renamed before it
ArchiveOldCertificate(cur, arch, t, failAt, done) ==
    IF "cert.pem" \notin DOMAIN cur
    THEN [current |-> cur, archive |-> arch, moved |-> {}, err |-> FALSE]
    ELSE LET moved == IF failAt = "none" THEN DOMAIN cur ELSE done
         IN  [current |-> Restrict(cur, DOMAIN cur \ moved),
              archive |-> Renamed(cur, arch, t, moved),
              moved   |-> moved,
              err     |-> failAt # "none"]

HasSuffix(s, p) == Len(s) >= Len(p) /\ SubSeq(s, Len(s) - Len(p) + 1, Len(s)) = p

\* trimmedIssuerCert without the line feed appended
TrimmedIssuerCertBare(issuer) ==
    TrimSpace(issuer)

\* saveCertificateFiles: trimmedIssuerCert, the issuer certificate without its
\* surrounding white space and, unless empty, with a line feed appended
TrimmedIssuerCert(issuer) ==
    LET trimmed == TrimSpace(issuer)
    IN  IF trimmed # <<>> /\ ~HasSuffix(trimmed, <<"\n">>)
        THEN trimmed \o <<"\n">>
        ELSE trimmed

\* saveCertificateFiles: the files map, the bytes written to each file for
\* the certificate resource c
SavedBytes(c) ==
    [f \in SavedFiles |->
        CASE f = "cert.pem"    -> c.Certificate
          [] f = "privkey.pem" -> c.PrivateKey
          [] f = "chain.pem"   -> TrimmedIssuerCert(c.IssuerCertificate)
          [] OTHER             -> c.Certificate \o c.IssuerCertificate]

\* the content saveCertificateFiles gives file f for certificate c at time t
SavedContent(f, c, t) ==
    IF f = "cert.pem" THEN CertFile(c, t) ELSE PartFile(f, c.gen, t)

\* saveCertificateFiles that returns nil when a write failed
saveCertificateFilesHidesError(cur, c, t, failAt, done, trunc) ==
    LET written == IF failAt = "none" THEN SavedFiles ELSE done
        touched == written \cup (IF failAt # "none" /\ trunc THEN {failAt} ELSE {})
    IN  [current |-> [f \in DOMAIN cur \cup touched |->
                        IF f \in written THEN SavedContent(f, c, t)
                        ELSE IF f \in touched THEN PartialFile(f, c.gen, t)
                        ELSE cur[f]],
         err |-> FALSE]

\* Manager.saveCertificateFiles at time t: the four files are written in the
\* order of a Go map iteration; failAt is the file whose os.WriteFile fails
\* ("none": all succeed), done the files written before it, and trunc tells
\* whether the failed write left the file created or truncated
saveCertificateFiles(cur, c, t, failAt, done, trunc) ==
    LET written == IF failAt = "none" THEN SavedFiles ELSE done
        touched == written \cup (IF failAt # "none" /\ trunc THEN {failAt} ELSE {})
    IN  [current |-> [f \in DOMAIN cur \cup touched |->
                        IF f \in written THEN SavedContent(f, c, t)
                        ELSE IF f \in touched THEN PartialFile(f, c.gen, t)
                        ELSE cur[f]],
         err |-> failAt # "none"]

\* Manager.saveCertificateMetadata with utils.SaveCertificateMetadata: cert.json
\* is written with RenewalCount 0; failed tells whether os.WriteFile failed
saveCertificateMetadata(cur, c, t, failed) ==
    IF failed THEN [current |-> cur, err |-> TRUE]
    ELSE [current |-> [f \in DOMAIN cur \cup {"cert.json"} |->
                         IF f = "cert.json" THEN MetaFile(c.gen, t, 0) ELSE cur[f]],
          err |-> FALSE]

\* a subdirectory of archive/ with modification time t
DirEntry(t) == [part |-> "dir", gen |-> 0, form |-> "dir", mtime |-> t]

\* Expired with the cut-off itself counted as older
ExpiredNotStrict(arch, keepDays, t) ==
    {k \in DOMAIN arch : /\ arch[k].form # "dir"
                         /\ arch[k].mtime <= t - keepDays * HoursPerDay}

\* the entries CleanupOldArchives removes: not directories, modified before
\* the cut-off
Expired(arch, keepDays, t) ==
    {k \in DOMAIN arch : /\ arch[k].form # "dir"
                         /\ arch[k].mtime < t - keepDays * HoursPerDay}

\* CleanupOldArchives that gives up with an error when a removal fails
CleanupOldArchivesStopsAtFailure(arch, keepDays, t, readErr, stuck) ==
    IF keepDays <= 0 THEN [archive |-> arch, err |-> FALSE]
    ELSE IF readErr = "notexist" THEN [archive |-> arch, err |-> FALSE]
    ELSE IF readErr = "other" THEN [archive |-> arch, err |-> TRUE]
    ELSE IF stuck # {} THEN [archive |-> arch, err |-> TRUE]
    ELSE [archive |-> Restrict(arch, DOMAIN arch \ Expired(arch, keepDays, t)),
          err |-> FALSE]

\* utils.CleanupOldArchives at time t: readErr is the outcome of os.ReadDir
\* ("none", "notexist" when archive/ is missing, "other"), stuck are the files
\* whose os.Remove fails
CleanupOldArchives(arch, keepDays, t, readErr, stuck) ==
    IF keepDays <= 0 THEN [archive |-> arch, err |-> FALSE]
    ELSE IF readErr = "notexist" THEN [archive |-> arch, err |-> FALSE]
    ELSE IF readErr = "other" THEN [archive |-> arch, err |-> TRUE]
    ELSE [archive |-> Restrict(arch, DOMAIN arch \ (Expired(arch, keepDays, t) \ stuck)),
          err |-> FALSE]

-----------------------------------------------------------------------------
(* utils: the slot directory of a domain list *)

RECURSIVE ReplaceAll(_, _, _)
\* strings.ReplaceAll(s, old, new) for a non-empty old
ReplaceAll(s, old, new) ==
    IF Len(s) = 0 THEN <<>>
    ELSE IF HasPrefix(s, old)
         THEN new \o ReplaceAll(SubSeq(s, Len(old) + 1, Len(s)), old, new)
         ELSE <<s[1]>> \o ReplaceAll(Tail(s), old, new)

\* the safe token that stands for the wildcard marker
Wildcard == <<"w", "i", "l", "d", "c", "a", "r", "d">>

\* GetCertificateDir that joins the domain as it is given
GetCertificateDirKeepsMarker(baseDir, domain) ==
    baseDir \o <<"/">> \o domain

\* utils.GetCertificateDir: filepath.Join(baseDir, cleanDomain)
GetCertificateDir(baseDir, domain) ==
    LET cleanDomain == ReplaceAll(ReplaceAll(domain, <<"*", ".">>, Wildcard \o <<".">>),
                                  <<"*">>, Wildcard)
    IN  baseDir \o <<"/">> \o cleanDomain

\* the primary domain is always the first entry
PrimaryIsFirst(ds) ==
    ds[1]

\* the domain that names the slot of a domain list: the first wildcard entry
\* if there is one, the first entry otherwise
PrimaryDomain(ds) ==
    LET wild == {i \in 1..Len(ds) : HasPrefix(ds[i], <<"*", ".">>)}
    IN  IF wild = {} THEN ds[1]
        ELSE ds[CHOOSE i \in wild : \A j \in wild : i <= j]

\* utils.GetCertificatePathsForDomains: the CertDir of the paths
GetCertificatePathsForDomains(baseDir, ds) ==
    GetCertificateDir(baseDir, PrimaryDomain(ds))

-----------------------------------------------------------------------------
(* dns.CloudflareProvider: zone resolution *)

RECURSIVE Join(_)
\* strings.Join(parts, ".")
Join(parts) ==
    IF Len(parts) = 0 THEN <<>>
    ELSE IF Len(parts) = 1 THEN parts[1]
    ELSE parts[1] \o <<".">> \o Join(Tail(parts))

\* a zone of the account
Zone(id, name) == [id |-> id, name |-> name]

\* client.ListZones(ctx, name): the zones of the account zs with that name
ListZonesNamed(zs, name) == SelectSeq(zs, LAMBDA z : z.name = name)

\* one call of the provider's API as the call log records it
Call(name, arg, ok) == [call |-> name, arg |-> arg, ok |-> ok]

\* what zone resolution returns: the error, the zone id, the API calls made
Resolved(err, zone, calls) == [err |-> err, zone |-> zone, calls |-> calls]

RECURSIVE AutomaticFrom(_, _, _, _, _, _)
\* the loop of getZoneIDAutomatic from index i up to (not including) last;
\* failing are the indices whose ListZones call returns an error
AutomaticFrom(zs, parts, i, last, failing, calls) ==
    IF i >= last THEN Resolved(TRUE, "", calls)
    ELSE LET candidateZone == Join(SubSeq(parts, i + 1, Len(parts)))
             found == ListZonesNamed(zs, candidateZone)
             ok    == i \notin failing
             made  == Append(calls, Call("ListZones", candidateZone, ok))
         IN  IF ~ok THEN AutomaticFrom(zs, parts, i + 1, last, failing, made)
             ELSE IF Len(found) > 0 THEN Resolved(FALSE, found[1].id, made)
             ELSE AutomaticFrom(zs, parts, i + 1, last, failing, made)

\* getZoneIDAutomatic that also asks for the last label alone
getZoneIDAutomaticWithTLD(zs, domain, failing) ==
    LET parts == Split(domain, ".")
    IN  IF Len(parts) < 2 THEN Resolved(TRUE, "", <<>>)
        ELSE AutomaticFrom(zs, parts, 0, Len(parts), failing, <<>>)

\* CloudflareProvider.getZoneIDAutomatic on the account zs
getZoneIDAutomatic(zs, domain, failing) ==
    LET parts == Split(domain, ".")
    IN  IF Len(parts) < 2 THEN Resolved(TRUE, "", <<>>)
        ELSE AutomaticFrom(zs, parts, 0, Len(parts) - 1, failing, <<>>)

\* the value of a decimal digit, -1 for any other character
DigitOf(c) ==
    CASE c = "0" -> 0 [] c = "1" -> 1 [] c = "2" -> 2 [] c = "3" -> 3
      [] c = "4" -> 4 [] c = "5" -> 5 [] c = "6" -> 6 [] c = "7" -> 7
      [] c = "8" -> 8 [] c = "9" -> 9 [] OTHER -> -1

RECURSIVE DecimalValue(_)
DecimalValue(s) ==
    IF Len(s) = 0 THEN 0
    ELSE 10 * DecimalValue(SubSeq(s, 1, Len(s) - 1)) + DigitOf(s[Len(s)])

\* strconv.Atoi: an optional sign and decimal digits, nothing else
Atoi(s) ==
    LET signed == Len(s) > 0 /\ s[1] \in {"+", "-"}
        digits == IF signed THEN Tail(s) ELSE s
    IN  IF digits = <<>> \/ \E i \in 1..Len(digits) : DigitOf(digits[i]) < 0
        THEN [ok |-> FALSE, n |-> 0]
        ELSE [ok |-> TRUE,
              n  |-> IF signed /\ s[1] = "-" THEN 0 - DecimalValue(digits)
                     ELSE DecimalValue(digits)]

\* what GetZoneIDForDomain returns: as Resolved, and whether the operator was
\* asked to choose
Selected(err, zone, calls, prompted) ==
    [err |-> err, zone |-> zone, calls |-> calls, prompted |-> prompted]

\* SelectZoneInteractive: matchingZones, the zones the filter keeps
MatchingZones(zs, domain) ==
    SelectSeq(zs, LAMBDA z : HasSuffix(domain, z.name) \/ domain = z.name)

\* CloudflareProvider.SelectZoneInteractive on the account zs: listFails tells
\* whether ListZones fails, input is what reader.ReadString returns
SelectZoneInteractive(zs, domain, listFails, input) ==
    LET listed   == <<Call("ListZones", <<>>, ~listFails)>>
        matching == MatchingZones(zs, domain)
        shown    == IF Len(matching) > 0 THEN matching ELSE zs
        choice   == Atoi(TrimSpace(input.data))
    IN  IF listFails THEN Selected(TRUE, "", listed, FALSE)
        ELSE IF Len(zs) = 0 THEN Selected(TRUE, "", listed, FALSE)
        ELSE IF Len(shown) = 1 THEN Selected(FALSE, shown[1].id, listed, FALSE)
        ELSE IF input.err THEN Selected(TRUE, "", listed, TRUE)
        ELSE IF ~choice.ok THEN Selected(TRUE, "", listed, TRUE)
        ELSE IF choice.n < 1 \/ choice.n > Len(shown) THEN Selected(TRUE, "", listed, TRUE)
        ELSE Selected(FALSE, shown[choice.n].id, listed, TRUE)

\* what the environment does during one call of the provider: the ListZones
\* calls that fail, the operator's input, whether the record call fails
Env(failing, listFails, input, apiFails) ==
    [failing |-> failing, listFails |-> listFails, input |-> input,
     apiFails |-> apiFails]

\* CloudflareProvider.GetZoneIDForDomain: automatic detection, then the
\* interactive selection
GetZoneIDForDomain(zs, domain, env) ==
    LET a == getZoneIDAutomatic(zs, domain, env.failing)
    IN  IF ~a.err THEN Selected(FALSE, a.zone, a.calls, FALSE)
        ELSE LET sel == SelectZoneInteractive(zs, domain, env.listFails, env.input)
             IN  Selected(sel.err, sel.zone, a.calls \o sel.calls, sel.prompted)

-----------------------------------------------------------------------------
(* dns.CloudflareProvider: Present and CleanUp *)

\* a TXT record of the account: the id the provider gave it and its zone
Txt(id, zone) == [id |-> id, zone |-> zone]

\* the provider after a call: its table, the account's TXT records, the next
\* record id of the account, and the call as lastOp records it
After(recs, txts, nid, op) ==
    [records |-> recs, dnsRecords |-> txts, nextId |-> nid, op |-> op]

Op(name, domain, token, err, zone, calls, prompted) ==
    [op |-> name, domain |-> domain, token |-> token, err |-> err,
     zone |-> zone, calls |-> calls, prompted |-> prompted]

\* CloudflareProvider.Present(domain, token, keyAuth)
Present(zs, recs, txts, nid, domain, token, env) ==
    LET z       == GetZoneIDForDomain(zs, domain, env)
        created == Append(z.calls, Call("CreateDNSRecord", z.zone, ~env.apiFails))
    IN  IF z.err
        THEN After(recs, txts, nid,
                   Op("Present", domain, token, TRUE, "", z.calls, z.prompted))
        ELSE IF env.apiFails
        THEN After(recs, txts, nid,
                   Op("Present", domain, token, TRUE, z.zone, created, z.prompted))
        ELSE After([t \in DOMAIN recs \cup {token} |->
                       IF t = token THEN nid ELSE recs[t]],
                   txts \cup {Txt(nid, z.zone)}, nid + 1,
                   Op("Present", domain, token, FALSE, z.zone, created, z.prompted))

\* CleanUp that resolves the zone before it looks the token up
CleanUpResolvesFirst(zs, recs, txts, nid, domain, token, env) ==
    LET z == GetZoneIDForDomain(zs, domain, env)
    IN  After(recs, txts, nid,
              Op("CleanUp", domain, token, z.err, z.zone, z.calls, z.prompted))

\* CleanUp that leaves the token in the table
CleanUpKeepsEntry(zs, recs, txts, nid, domain, token, env) ==
    IF token \notin DOMAIN recs
    THEN After(recs, txts, nid, Op("CleanUp", domain, token, FALSE, "", <<>>, FALSE))
    ELSE LET z == GetZoneIDForDomain(zs, domain, env)
             deleted == Append(z.calls, Call("DeleteDNSRecord", recs[token], TRUE))
         IN  After(recs, txts \ {Txt(recs[token], z.zone)}, nid,
                   Op("CleanUp", domain, token, z.err, z.zone, deleted, z.prompted))

\* CloudflareProvider.CleanUp(domain, token, keyAuth): the provider deletes a
\* record only in the zone it was created in
CleanUp(zs, recs, txts, nid, domain, token, env) ==
    IF token \notin DOMAIN recs
    THEN After(recs, txts, nid, Op("CleanUp", domain, token, FALSE, "", <<>>, FALSE))
    ELSE LET recordID == recs[token]
             z        == GetZoneIDForDomain(zs, domain, env)
             fails    == env.apiFails \/ Txt(recordID, z.zone) \notin txts
             deleted  == Append(z.calls, Call("DeleteDNSRecord", recordID, ~fails))
         IN  IF z.err
             THEN After(recs, txts, nid,
                        Op("CleanUp", domain, token, TRUE, "", z.calls, z.prompted))
             ELSE IF fails
             THEN After(recs, txts, nid,
                        Op("CleanUp", domain, token, TRUE, z.zone, deleted, z.prompted))
             ELSE After(Restrict(recs, DOMAIN recs \ {token}),
                        txts \ {Txt(recordID, z.zone)}, nid,
                        Op("CleanUp", domain, token, FALSE, z.zone, deleted, z.prompted))

-----------------------------------------------------------------------------
(* Inputs of GenerateCertificate *)

\* the hour at which the command is run
ElapsedChoices == {1, 61 * HoursPerDay}

\* NotAfter of the certificate found in current/, in hours after the earliest run
ExpiryOffsets ==
    {-25, -1, 0, 5 * HoursPerDay, 31 * HoursPerDay - 1, 31 * HoursPerDay}

\* the names of the certificate found in current/
InitNames ==
    { [cn |-> D_ab, dns |-> <<D_ab>>],
      [cn |-> D_ab, dns |-> <<D_ab, D_wab>>],
      [cn |-> <<>>, dns |-> <<D_starab, D_ab>>] }

InitCertFiles ==
    { CertFile([gen |-> 0, cn |-> n.cn, dnsNames |-> n.dns, notAfter |-> 1 + h], 0) :
        n \in InitNames, h \in ExpiryOffsets }
    \cup
    { [CertFile(NoCert, 0) EXCEPT !.form = f] : f \in {"unreadable", "nopem", "badder"} }

\* a complete generation around cert.pem c
FullStore(c) ==
    [f \in FileNames |->
        IF f = "cert.pem" THEN c
        ELSE IF f = "cert.json" THEN MetaFile(0, 0, 0)
        ELSE PartFile(f, 0, 0)]

\* the slot as the run finds it: empty, a complete generation, a generation
\* without chain files and metadata, or files left without cert.pem
InitStores ==
    {NoFiles}
    \cup {FullStore(c) : c \in InitCertFiles}
    \cup {Restrict(FullStore(CertFile([gen |-> 0, cn |-> D_ab, dnsNames |-> <<D_ab>>,
                                       notAfter |-> 1 + 5 * HoursPerDay], 0)), S) :
            S \in {{"cert.pem", "privkey.pem"}, {"privkey.pem", "cert.json"}}}

Stream(lines, tail) == [lines |-> lines, tail |-> tail]
NoInput == Stream(<<>>, <<>>)
NotRead == [err |-> FALSE, data |-> <<>>]

\* what the operator types when the manager prompts
MgrStreams ==
    { NoInput,
      Stream(<< <<"y">> >>, <<>>),
      Stream(<< <<"n">> >>, <<>>),
      Stream(<< <<>> >>, <<>>),
      Stream(<< <<"x">>, <<"Y", "E", "S">> >>, <<>>) }

\* no call of CleanupOldArchives yet
NoCall == [keepDays |-> 0, readErr |-> "none", stuck |-> {}]

\* the provider's table of TXT records before any Present
NoRecords == [t \in {} |-> t]

\* no call of Present or CleanUp yet
NoOp == [op |-> "none", domain |-> <<>>, token |-> "none", err |-> FALSE,
         zone |-> "", calls |-> <<>>, prompted |-> FALSE]

\* the state of the parts a specification does not exercise
ExtIdle ==
    /\ archiveAtStart = NoFiles /\ cleanupCall = NoCall
    /\ zones = <<>> /\ records = NoRecords /\ dnsRecords = {} /\ nextId = 1
    /\ lastOp = NoOp /\ opCount = 0
    /\ renewQueue = <<>> /\ renewIdx = 1 /\ renewLog = <<>>

-----------------------------------------------------------------------------
(* certificate.Manager.GenerateCertificate, one action per step *)

AskIdle ==
    /\ stdin' = NoInput /\ askPos' = 1 /\ askPc' = "idle"
    /\ askResult' = FALSE /\ askPrompts' = 0 /\ askSeen' = NotRead

Fail == pc' = "done" /\ result' = "error"

\* cmd: NewManager (config.Load) and the call of GenerateCertificate
Start ==
    /\ pc = "idle"
    /\ \E e \in ElapsedChoices : now' = now + e
    /\ \E req \in RequestChoices, force \in BOOLEAN, cfgOk \in BOOLEAN :
          /\ domains' = req
          /\ configOk' = cfgOk
          /\ forceRenew' = force
          /\ IF cfgOk THEN pc' = "validate" /\ result' = "none" ELSE Fail
    /\ action' = "none" /\ question' = "none" /\ asks' = 0 /\ cert' = NoCert
    /\ currentAtStart' = current /\ archivedFiles' = {}
    /\ obtainOk' = FALSE /\ obtainFailed' = FALSE /\ wroteNew' = {}
    /\ contacted' = FALSE /\ layoutAtStart' = layout
    /\ AskIdle
    /\ UNCHANGED <<layout, current, archive, issued, faults, dmVars, extVars>>

\* GenerateCertificate: the domain list is not empty and every domain is valid
Validate ==
    /\ pc = "validate"
    /\ IF Len(domains) = 0 \/ \E i \in 1..Len(domains) : ~ValidateDomainName(domains[i])
       THEN Fail
       ELSE pc' = "mkdir" /\ result' = result
    /\ UNCHANGED <<forceRenew, domains, now, layout, current, archive, action,
                   question, asks, cert, issued, faults>>
    /\ UNCHANGED <<dmVars, askVars, histVars, extVars>>

\* GenerateCertificate: the slot's directories are created
CreateStructure ==
    /\ pc = "mkdir"
    /\ \/ /\ layout' = TRUE /\ pc' = "newclient"
          /\ UNCHANGED <<result, faults>>
       \/ /\ faults < MaxFaults
          /\ faults' = faults + 1
          /\ Fail
          /\ UNCHANGED layout
    /\ UNCHANGED <<forceRenew, domains, now, current, archive, action,
                   question, asks, cert, issued>>
    /\ UNCHANGED <<dmVars, askVars, histVars, extVars>>

\* GenerateCertificate: acme.NewClient registers the account, or fails
NewClient ==
    /\ pc = "newclient"
    /\ \/ pc' = "determine" /\ UNCHANGED result
       \/ Fail
    /\ contacted' = TRUE
    /\ UNCHANGED <<forceRenew, domains, now, layout, current, archive, action,
                   question, asks, cert, issued, faults>>
    /\ UNCHANGED <<currentAtStart, archivedFiles, obtainOk, obtainFailed, wroteNew,
                   configOk, layoutAtStart>>
    /\ UNCHANGED <<dmVars, askVars, extVars>>

\* GenerateCertificate: determineAction up to its return or its prompt
DetermineAction ==
    /\ pc = "determine"
    /\ LET d == determineAction(forceRenew, current, domains, now)
       IN  IF d.ask = "none"
           THEN /\ action' = d.ret
                /\ pc' = "archive"
                /\ UNCHANGED <<question, asks, askVars>>
           ELSE /\ question' = d.ask
                /\ asks' = asks + 1
                /\ pc' = "asking"
                /\ \E s \in MgrStreams : stdin' = s
                /\ askPc' = "reading" /\ askPos' = 1
                /\ UNCHANGED <<action, askResult, askPrompts, askSeen>>
    /\ UNCHANGED <<forceRenew, domains, now, layout, current, archive,
                   cert, result, issued, faults>>
    /\ UNCHANGED <<dmVars, histVars, extVars>>

\* determineAction after AskUserConfirmation returned, and the switch of
\* GenerateCertificate on the action
AskReturn ==
    /\ pc = "asking"
    /\ askPc = "returned"
    /\ action' = AfterAnswer(question, askResult)
    /\ IF action' = "Skip"
       THEN pc' = "done" /\ result' = "ok"
       ELSE pc' = "archive" /\ result' = result
    /\ askPc' = "idle"
    /\ UNCHANGED <<stdin, askPos, askResult, askPrompts, askSeen>>
    /\ UNCHANGED <<forceRenew, domains, now, layout, current, archive,
                   question, asks, cert, issued, faults>>
    /\ UNCHANGED <<dmVars, histVars, extVars>>

\* GenerateCertificate: utils.ArchiveOldCertificate, its error only logged
Archive ==
    /\ pc = "archive"
    /\ \/ \* every rename succeeds (or there is no cert.pem and nothing is done)
          LET r == ArchiveOldCertificate(current, archive, now, "none", {})
          IN  /\ current' = r.current
              /\ archive' = r.archive
              /\ archivedFiles' = r.moved
              /\ UNCHANGED faults
       \/ \* the rename of failAt fails after the files of done were renamed
          /\ "cert.pem" \in DOMAIN current
          /\ faults < MaxFaults
          /\ \E failAt \in DOMAIN current :
               \E done \in SUBSET (DOMAIN current \ {failAt}) :
                  LET r == ArchiveOldCertificate(current, archive, now, failAt, done)
                  IN  /\ current' = r.current
                      /\ archive' = r.archive
                      /\ archivedFiles' = r.moved
                      /\ faults' = faults + 1
    /\ pc' = "obtain"
    /\ UNCHANGED <<forceRenew, domains, now, layout, action, question, asks,
                   cert, result, issued>>
    /\ UNCHANGED <<currentAtStart, obtainOk, obtainFailed, wroteNew,
                   configOk, contacted, layoutAtStart>>
    /\ UNCHANGED <<dmVars, askVars, extVars>>

\* GenerateCertificate: client.ObtainCertificate returns a certificate for the
\* requested domains, or an error
Obtain ==
    /\ pc = "obtain"
    /\ \/ /\ cert' = [gen |-> issued + 1, cn |-> domains[1], dnsNames |-> domains,
                      notAfter |-> now + 90 * HoursPerDay]
          /\ issued' = issued + 1
          /\ obtainOk' = TRUE
          /\ pc' = "save"
          /\ UNCHANGED <<result, obtainFailed>>
       \/ /\ obtainFailed' = TRUE
          /\ Fail
          /\ UNCHANGED <<cert, issued, obtainOk>>
    /\ UNCHANGED <<forceRenew, domains, now, layout, current, archive, action,
                   question, asks, faults>>
    /\ UNCHANGED <<currentAtStart, archivedFiles, wroteNew,
                   configOk, contacted, layoutAtStart>>
    /\ UNCHANGED <<dmVars, askVars, extVars>>

\* GenerateCertificate: saveCertificateFiles, its error returned
SaveFiles ==
    /\ pc = "save"
    /\ \/ \* the four writes succeed
          LET r == saveCertificateFiles(current, cert, now, "none", {}, FALSE)
          IN  /\ current' = r.current
              /\ wroteNew' = SavedFiles
              /\ pc' = "meta"
              /\ UNCHANGED <<result, faults>>
       \/ \* the write of failAt fails after the files of done were written
          /\ faults < MaxFaults
          /\ \E failAt \in SavedFiles :
               \E done \in SUBSET (SavedFiles \ {failAt}), trunc \in BOOLEAN :
                  LET r == saveCertificateFiles(current, cert, now, failAt, done, trunc)
                  IN  /\ current' = r.current
                      /\ wroteNew' = done
                      /\ faults' = faults + 1
                      /\ IF r.err THEN Fail ELSE pc' = "meta" /\ UNCHANGED result
    /\ UNCHANGED <<forceRenew, domains, now, layout, archive, action, question,
                   asks, cert, issued>>
    /\ UNCHANGED <<currentAtStart, archivedFiles, obtainOk, obtainFailed,
                   configOk, contacted, layoutAtStart>>
    /\ UNCHANGED <<dmVars, askVars, extVars>>

\* GenerateCertificate: saveCertificateMetadata, its error only logged
SaveMetadata ==
    /\ pc = "meta"
    /\ \E failed \in (IF faults < MaxFaults THEN BOOLEAN ELSE {FALSE}) :
         LET r == saveCertificateMetadata(current, cert, now, failed)
         IN  /\ current' = r.current
             /\ faults' = faults + (IF r.err THEN 1 ELSE 0)
    /\ pc' = "cleanup"
    /\ UNCHANGED <<forceRenew, domains, now, layout, archive, action, question,
                   asks, cert, result, issued>>
    /\ UNCHANGED <<dmVars, askVars, histVars, extVars>>

\* GenerateCertificate: utils.CleanupOldArchives, its error only logged, and the
\* report of success
Cleanup ==
    /\ pc = "cleanup"
    /\ \E readErr \in (IF faults < MaxFaults THEN {"none", "other"} ELSE {"none"}) :
         \E stuck \in (IF readErr # "none" \/ faults >= MaxFaults THEN {{}}
                       ELSE {{}} \cup {{k} : k \in Expired(archive, RetentionDays, now)}) :
            LET r == CleanupOldArchives(archive, RetentionDays, now, readErr, stuck)
            IN  /\ archive' = r.archive
                /\ faults' = faults + (IF readErr # "none" \/ stuck # {} THEN 1 ELSE 0)
    /\ pc' = "done"
    /\ result' = "ok"
    /\ UNCHANGED <<forceRenew, domains, now, layout, current, action, question,
                   asks, cert, issued>>
    /\ UNCHANGED <<dmVars, askVars, histVars, extVars>>

\* AskUserConfirmation running inside determineAction
Asking ==
    /\ pc = "asking"
    /\ AskRead
    /\ UNCHANGED <<dmVars, mgrVars, histVars, extVars>>

Init ==
    /\ dmA = <<>> /\ dmB = <<>> /\ dmPc = "idle" /\ dmResult = FALSE
    /\ stdin = NoInput /\ askPos = 1 /\ askPc = "idle"
    /\ askResult = FALSE /\ askPrompts = 0 /\ askSeen = NotRead
    /\ pc = "idle" /\ forceRenew = FALSE /\ domains = <<>> /\ now = 0
    /\ current \in InitStores
    /\ layout \in (IF current = NoFiles THEN BOOLEAN ELSE {TRUE})
    /\ archive = NoFiles
    /\ action = "none" /\ question = "none" /\ asks = 0 /\ cert = NoCert
    /\ result = "none" /\ issued = 0 /\ faults = 0
    /\ currentAtStart = current /\ archivedFiles = {}
    /\ obtainOk = FALSE /\ obtainFailed = FALSE /\ wroteNew = {}
    /\ configOk = FALSE /\ contacted = FALSE /\ layoutAtStart = layout
    /\ ExtIdle

Next ==
    \/ Start
    \/ Validate
    \/ CreateStructure
    \/ NewClient
    \/ DetermineAction
    \/ Asking
    \/ AskReturn
    \/ Archive
    \/ Obtain
    \/ SaveFiles
    \/ SaveMetadata
    \/ Cleanup

Spec == Init /\ [][Next]_vars

-----------------------------------------------------------------------------
(* DomainsMatch applied to drawn lists *)

\* longest list handed to DomainsMatch
MaxListLen == 2

\* entries that differ in case and in surrounding white space, and entries that
\* normalise to the same key
DMNames ==
    { <<"a">>, <<"A">>, <<" ", "a">>, <<"a", " ">>, <<"b">>, <<"a", "b">>,
      <<" ">>, <<>> }

DMLists == SeqsUpTo(DMNames, MaxListLen)

InitDM ==
    /\ dmA \in DMLists /\ dmB \in DMLists /\ dmPc = "call" /\ dmResult = FALSE
    /\ stdin = NoInput /\ askPos = 1 /\ askPc = "idle"
    /\ askResult = FALSE /\ askPrompts = 0 /\ askSeen = NotRead
    /\ pc = "idle" /\ forceRenew = FALSE /\ domains = <<>> /\ now = 0
    /\ current = NoFiles /\ layout = FALSE /\ archive = NoFiles
    /\ action = "none" /\ question = "none" /\ asks = 0 /\ cert = NoCert
    /\ result = "none" /\ issued = 0 /\ faults = 0
    /\ currentAtStart = NoFiles /\ archivedFiles = {}
    /\ obtainOk = FALSE /\ obtainFailed = FALSE /\ wroteNew = {}
    /\ configOk = FALSE /\ contacted = FALSE /\ layoutAtStart = layout
    /\ ExtIdle

\* the call DomainsMatch(dmA, dmB)
CallDomainsMatch ==
    /\ dmPc = "call"
    /\ dmResult' = DomainsMatch(dmA, dmB)
    /\ dmPc' = "done"
    /\ UNCHANGED <<dmA, dmB, askVars, mgrVars, histVars, extVars>>

NextDM == CallDomainsMatch

SpecDM == InitDM /\ [][NextDM]_vars

-----------------------------------------------------------------------------
(* AskUserConfirmation on drawn input streams *)

\* complete lines on the input stream before it ends
MaxStreamLen == 2

YesWords ==
    {<<c>> : c \in {"y", "Y"}}
    \cup {<<c1, c2, c3>> : c1 \in {"y", "Y"}, c2 \in {"e", "E"}, c3 \in {"s", "S"}}

NoWords ==
    {<<c>> : c \in {"n", "N"}}
    \cup {<<c1, c2>> : c1 \in {"n", "N"}, c2 \in {"o", "O"}}

\* what the operator may type on one line (without the line feed)
AskLines ==
    YesWords \cup NoWords
    \cup { <<>>, <<" ">>, <<" ", "y", " ">>, <<"N", "o", "\r">>,
           <<"x">>, <<"o">>, <<"y", "e">>, <<"y", "e", "s", "s">>,
           <<"n", "o", "n">>, <<"y", " ", "e", "s">> }

\* streams of complete lines that end with end-of-file, possibly after an
\* unterminated last line
AskStreams ==
    {Stream(ls, t) : ls \in SeqsUpTo(AskLines, MaxStreamLen),
                     t \in {<<>>, <<"y">>}}

InitAsk ==
    /\ dmA = <<>> /\ dmB = <<>> /\ dmPc = "idle" /\ dmResult = FALSE
    /\ stdin \in AskStreams /\ askPos = 1 /\ askPc = "reading"
    /\ askResult = FALSE /\ askPrompts = 0 /\ askSeen = NotRead
    /\ pc = "idle" /\ forceRenew = FALSE /\ domains = <<>> /\ now = 0
    /\ current = NoFiles /\ layout = FALSE /\ archive = NoFiles
    /\ action = "none" /\ question = "none" /\ asks = 0 /\ cert = NoCert
    /\ result = "none" /\ issued = 0 /\ faults = 0
    /\ currentAtStart = NoFiles /\ archivedFiles = {}
    /\ obtainOk = FALSE /\ obtainFailed = FALSE /\ wroteNew = {}
    /\ configOk = FALSE /\ contacted = FALSE /\ layoutAtStart = layout
    /\ ExtIdle

NextAsk == AskRead /\ UNCHANGED <<dmVars, mgrVars, histVars, extVars>>

\* the call is blocking and runs to its return: the loop keeps taking its step
SpecAsk == InitAsk /\ [][NextAsk]_vars /\ WF_vars(NextAsk)

-----------------------------------------------------------------------------
(* utils.ArchiveOldCertificate applied to drawn slots *)

\* the slot holds any of the five files of one generation
ArchiveStores ==
    {Restrict(FullStore(CertFile([gen |-> 0, cn |-> D_ab, dnsNames |-> <<D_ab>>,
                                  notAfter |-> 1 + 5 * HoursPerDay], 0)), S) :
        S \in SUBSET FileNames}

\* archive/ is empty or holds two files of an earlier generation, archived at
\* time 0
EarlierArchive ==
    [k \in {<<0, "cert.pem">>, <<0, "privkey.pem">>} |-> PartFile(k[2], 0, 0)]

\* the clock readings of the call (time.Now)
ArchiveTimes == {0, 7}

InitArchive ==
    /\ dmA = <<>> /\ dmB = <<>> /\ dmPc = "idle" /\ dmResult = FALSE
    /\ stdin = NoInput /\ askPos = 1 /\ askPc = "idle"
    /\ askResult = FALSE /\ askPrompts = 0 /\ askSeen = NotRead
    /\ pc = "call" /\ forceRenew = FALSE /\ domains = <<>>
    /\ now \in ArchiveTimes
    /\ current \in ArchiveStores /\ layout = TRUE
    /\ archive \in {NoFiles, EarlierArchive}
    /\ action = "none" /\ question = "none" /\ asks = 0 /\ cert = NoCert
    /\ result = "none" /\ issued = 0 /\ faults = 0
    /\ currentAtStart = current /\ archivedFiles = {}
    /\ obtainOk = FALSE /\ obtainFailed = FALSE /\ wroteNew = {}
    /\ configOk = FALSE /\ contacted = FALSE /\ layoutAtStart = layout
    /\ archiveAtStart = archive /\ cleanupCall = NoCall
    /\ zones = <<>> /\ records = NoRecords /\ dnsRecords = {} /\ nextId = 1
    /\ lastOp = NoOp /\ opCount = 0
    /\ renewQueue = <<>> /\ renewIdx = 1 /\ renewLog = <<>>

\* the call ArchiveOldCertificate(paths) and its return value
CallArchive ==
    /\ pc = "call"
    /\ \/ \* every rename succeeds (or there is no cert.pem and nothing is done)
          LET r == ArchiveOldCertificate(current, archive, now, "none", {})
          IN  /\ current' = r.current
              /\ archive' = r.archive
              /\ archivedFiles' = r.moved
              /\ result' = IF r.err THEN "error" ELSE "ok"
              /\ UNCHANGED faults
       \/ \* the rename of failAt fails after the files of done were renamed
          /\ "cert.pem" \in DOMAIN current
          /\ \E failAt \in DOMAIN current :
               \E done \in SUBSET (DOMAIN current \ {failAt}) :
                  LET r == ArchiveOldCertificate(current, archive, now, failAt, done)
                  IN  /\ current' = r.current
                      /\ archive' = r.archive
                      /\ archivedFiles' = r.moved
                      /\ result' = IF r.err THEN "error" ELSE "ok"
                      /\ faults' = faults + 1
    /\ pc' = "done"
    /\ UNCHANGED <<forceRenew, domains, now, layout, action, question, asks,
                   cert, issued>>
    /\ UNCHANGED <<currentAtStart, obtainOk, obtainFailed, wroteNew,
                   configOk, contacted, layoutAtStart>>
    /\ UNCHANGED <<dmVars, askVars, extVars>>

NextArchive == CallArchive

SpecArchive == InitArchive /\ [][NextArchive]_vars

-----------------------------------------------------------------------------
(* utils.CleanupOldArchives applied to drawn archive directories *)

\* the clock reading of the call (time.Now), in hours
CleanupNow == 100 * HoursPerDay

\* modification time of an entry d days and h hours old at the call
Aged(d, h) == CleanupNow - d * HoursPerDay - h

\* what archive/ may hold: files 29, 30 and 31 days old, a file one hour past
\* 30 days, and a subdirectory 40 days old
ArchivePool ==
    [k \in {<<1, "cert.pem">>, <<2, "cert.pem">>, <<3, "cert.pem">>,
            <<4, "cert.pem">>, <<5, "old">>} |->
        CASE k[1] = 1 -> PartFile("cert.pem", 0, Aged(31, 0))
          [] k[1] = 2 -> PartFile("cert.pem", 0, Aged(29, 0))
          [] k[1] = 3 -> PartFile("cert.pem", 0, Aged(30, 0))
          [] k[1] = 4 -> PartFile("cert.pem", 0, Aged(30, 1))
          [] OTHER    -> DirEntry(Aged(40, 0))]

CleanupArchives == {Restrict(ArchivePool, S) : S \in SUBSET DOMAIN ArchivePool}

\* the retention periods handed to the call, in days
KeepDaysChoices == {-1, 0, 29, RetentionDays}

InitCleanup ==
    /\ dmA = <<>> /\ dmB = <<>> /\ dmPc = "idle" /\ dmResult = FALSE
    /\ stdin = NoInput /\ askPos = 1 /\ askPc = "idle"
    /\ askResult = FALSE /\ askPrompts = 0 /\ askSeen = NotRead
    /\ pc = "call" /\ forceRenew = FALSE /\ domains = <<>>
    /\ now = CleanupNow
    /\ current = NoFiles
    /\ archive \in CleanupArchives
    /\ layout \in (IF archive = NoFiles THEN BOOLEAN ELSE {TRUE})
    /\ action = "none" /\ question = "none" /\ asks = 0 /\ cert = NoCert
    /\ result = "none" /\ issued = 0 /\ faults = 0
    /\ currentAtStart = NoFiles /\ archivedFiles = {}
    /\ obtainOk = FALSE /\ obtainFailed = FALSE /\ wroteNew = {}
    /\ configOk = FALSE /\ contacted = FALSE /\ layoutAtStart = layout
    /\ archiveAtStart = archive /\ cleanupCall = NoCall
    /\ zones = <<>> /\ records = NoRecords /\ dnsRecords = {} /\ nextId = 1
    /\ lastOp = NoOp /\ opCount = 0
    /\ renewQueue = <<>> /\ renewIdx = 1 /\ renewLog = <<>>

\* the call CleanupOldArchives(archiveDir, keepDays) and its return value;
\* os.ReadDir reports a missing directory exactly when archive/ does not exist
CallCleanup ==
    /\ pc = "call"
    /\ \E kd \in KeepDaysChoices,
          readErr \in (IF layout THEN {"none", "other"} ELSE {"notexist"}) :
         \E stuck \in (IF readErr = "none" /\ kd > 0
                       THEN SUBSET Expired(archive, kd, now) ELSE {{}}) :
            LET r == CleanupOldArchives(archive, kd, now, readErr, stuck)
            IN  /\ archive' = r.archive
                /\ result' = IF r.err THEN "error" ELSE "ok"
                /\ cleanupCall' = [keepDays |-> kd, readErr |-> readErr,
                                   stuck |-> stuck]
    /\ pc' = "done"
    /\ UNCHANGED <<forceRenew, domains, now, layout, current, action, question,
                   asks, cert, issued, faults>>
    /\ UNCHANGED <<archiveAtStart, dnsVars, renewVars>>
    /\ UNCHANGED <<dmVars, askVars, histVars>>

NextCleanup == CallCleanup

SpecCleanup == InitCleanup /\ [][NextCleanup]_vars

-----------------------------------------------------------------------------
(* saveCertificateFiles applied to drawn certificate bytes *)

\* longest issuer certificate, in bytes
MaxIssuerLen == 3

\* the bytes of the issuer certificate: text, line feeds and blanks
IssuerBytes == SeqsUpTo({"I", "\n", " "}, MaxIssuerLen)

\* the bytes of the leaf certificate
LeafBytes == {<<>>, <<"L">>, <<"L", "\n">>}

\* what ObtainCertificate returned
CertificateResults ==
    {[Certificate |-> l, PrivateKey |-> <<"K", "\n">>, IssuerCertificate |-> i] :
        l \in LeafBytes, i \in IssuerBytes}

InitSave ==
    /\ dmA = <<>> /\ dmB = <<>> /\ dmPc = "idle" /\ dmResult = FALSE
    /\ stdin = NoInput /\ askPos = 1 /\ askPc = "idle"
    /\ askResult = FALSE /\ askPrompts = 0 /\ askSeen = NotRead
    /\ pc = "call" /\ forceRenew = FALSE /\ domains = <<>> /\ now = 0
    /\ current = NoFiles /\ layout = TRUE /\ archive = NoFiles
    /\ action = "none" /\ question = "none" /\ asks = 0
    /\ cert \in CertificateResults
    /\ result = "none" /\ issued = 0 /\ faults = 0
    /\ currentAtStart = NoFiles /\ archivedFiles = {}
    /\ obtainOk = TRUE /\ obtainFailed = FALSE /\ wroteNew = {}
    /\ configOk = FALSE /\ contacted = FALSE /\ layoutAtStart = layout
    /\ ExtIdle

\* the call saveCertificateFiles(cert, paths) on an empty current/
CallSave ==
    /\ pc = "call"
    /\ \/ \* the four writes succeed
          /\ current' = SavedBytes(cert)
          /\ wroteNew' = SavedFiles
          /\ result' = "ok"
       \/ \* the write of failAt fails after the files of done were written
          \E failAt \in SavedFiles :
             \E done \in SUBSET (SavedFiles \ {failAt}), trunc \in BOOLEAN :
                /\ current' = [f \in done \cup (IF trunc THEN {failAt} ELSE {}) |->
                                  IF f \in done THEN SavedBytes(cert)[f] ELSE <<>>]
                /\ wroteNew' = done
                /\ result' = "error"
    /\ pc' = "done"
    /\ UNCHANGED <<forceRenew, domains, now, layout, archive, action, question,
                   asks, cert, issued, faults>>
    /\ UNCHANGED <<currentAtStart, archivedFiles, obtainOk, obtainFailed,
                   configOk, contacted, layoutAtStart>>
    /\ UNCHANGED <<dmVars, askVars, extVars>>

NextSave == CallSave

SpecSave == InitSave /\ [][NextSave]_vars

-----------------------------------------------------------------------------
(* getZoneIDAutomatic applied to drawn accounts and domains *)

\* example.com, sub.example.com, app.sub.example.com, app.example.com,
\* notexample.com, other.com and a name of one label
N_ec   == <<"e", ".", "c">>
N_sec  == <<"s", ".", "e", ".", "c">>
N_psec == <<"p", ".", "s", ".", "e", ".", "c">>
N_pec  == <<"p", ".", "e", ".", "c">>
N_nec  == <<"n", "e", ".", "c">>
N_oc   == <<"o", ".", "c">>
N_c    == <<"c">>

\* the zones of the Cloudflare account, in the order the API lists them
Accounts ==
    { <<>>,
      <<Zone("ze", N_ec)>>,
      <<Zone("zo", N_oc)>>,
      <<Zone("ze", N_ec), Zone("zs", N_sec)>>,
      <<Zone("zs", N_sec), Zone("ze", N_ec)>>,
      <<Zone("zo", N_oc), Zone("ze", N_ec)>> }

\* the domains whose challenge is presented
DnsDomains == {N_psec, N_sec, N_pec, N_ec, N_nec, N_c}

\* the loop indices of getZoneIDAutomatic whose ListZones call may fail
ListFailures == SUBSET {0, 1, 2}

InitZone ==
    /\ dmA = <<>> /\ dmB = <<>> /\ dmPc = "idle" /\ dmResult = FALSE
    /\ stdin = NoInput /\ askPos = 1 /\ askPc = "idle"
    /\ askResult = FALSE /\ askPrompts = 0 /\ askSeen = NotRead
    /\ pc = "call" /\ forceRenew = FALSE /\ domains = <<>> /\ now = 0
    /\ current = NoFiles /\ layout = FALSE /\ archive = NoFiles
    /\ action = "none" /\ question = "none" /\ asks = 0 /\ cert = NoCert
    /\ result = "none" /\ issued = 0 /\ faults = 0
    /\ currentAtStart = NoFiles /\ archivedFiles = {}
    /\ obtainOk = FALSE /\ obtainFailed = FALSE /\ wroteNew = {}
    /\ configOk = FALSE /\ contacted = FALSE /\ layoutAtStart = layout
    /\ archiveAtStart = NoFiles /\ cleanupCall = NoCall
    /\ zones \in Accounts
    /\ \E d \in DnsDomains : lastOp = [NoOp EXCEPT !.domain = d]
    /\ records = NoRecords /\ dnsRecords = {} /\ nextId = 1 /\ opCount = 0
    /\ renewQueue = <<>> /\ renewIdx = 1 /\ renewLog = <<>>

\* the call getZoneIDAutomatic(domain) and what it returns
CallAutomatic ==
    /\ pc = "call"
    /\ \E failing \in ListFailures :
         LET r == getZoneIDAutomatic(zones, lastOp.domain, failing)
         IN  lastOp' = [lastOp EXCEPT !.op = "getZoneIDAutomatic", !.err = r.err,
                                      !.zone = r.zone, !.calls = r.calls]
    /\ pc' = "done"
    /\ UNCHANGED <<forceRenew, domains, now, layout, current, archive, action,
                   question, asks, cert, result, issued, faults>>
    /\ UNCHANGED <<archiveAtStart, cleanupCall, zones, records, dnsRecords,
                   nextId, opCount, renewVars>>
    /\ UNCHANGED <<dmVars, askVars, histVars>>

NextZone == CallAutomatic

SpecZone == InitZone /\ [][NextZone]_vars

-----------------------------------------------------------------------------
(* GetZoneIDForDomain applied to drawn accounts and domains *)

\* what the operator types when asked to choose a zone, or end of input
ZoneInputs ==
    {[err |-> TRUE, data |-> <<>>]}
    \cup {[err |-> FALSE, data |-> l \o <<"\n">>] :
            l \in {<<"1">>, <<"2">>, <<" ", "2">>, <<"0">>, <<"3">>, <<"x">>, <<>>}}

\* an environment in which nothing fails and nothing is typed
QuietEnv == Env({}, FALSE, [err |-> TRUE, data |-> <<>>], FALSE)

\* the environments that differ for a call on domain: ListZones failures at
\* the indices the loop reaches, and, only when automatic detection fails,
\* the outcome of the full listing and the operator's input
EnvsFor(zs, domain) ==
    UNION { IF ~getZoneIDAutomatic(zs, domain, failing).err
            THEN {Env(failing, FALSE, QuietEnv.input, apiFails) :
                    apiFails \in BOOLEAN}
            ELSE {Env(failing, TRUE, QuietEnv.input, FALSE)}
                 \cup {Env(failing, FALSE, input, apiFails) :
                         input \in ZoneInputs, apiFails \in BOOLEAN} :
            failing \in SUBSET (0..(Len(Split(domain, ".")) - 2)) }

\* the call GetZoneIDForDomain(domain) and what it returns
CallResolve ==
    /\ pc = "call"
    /\ \E env \in EnvsFor(zones, lastOp.domain) :
         LET r == GetZoneIDForDomain(zones, lastOp.domain, env)
         IN  lastOp' = Op("GetZoneIDForDomain", lastOp.domain, "none", r.err,
                          r.zone, r.calls, r.prompted)
    /\ pc' = "done"
    /\ UNCHANGED <<forceRenew, domains, now, layout, current, archive, action,
                   question, asks, cert, result, issued, faults>>
    /\ UNCHANGED <<archiveAtStart, cleanupCall, zones, records, dnsRecords,
                   nextId, opCount, renewVars>>
    /\ UNCHANGED <<dmVars, askVars, histVars>>

NextResolve == CallResolve

SpecResolve == InitZone /\ [][NextResolve]_vars

-----------------------------------------------------------------------------
(* Present and CleanUp called on one provider *)

\* calls of Present and CleanUp on one provider instance
MaxOps == 3

\* the challenge tokens of the order
Tokens == {"t1", "t2"}

\* the domains of the calls
OpDomains == {N_psec, N_ec, N_nec, N_c}

InitDNS ==
    /\ dmA = <<>> /\ dmB = <<>> /\ dmPc = "idle" /\ dmResult = FALSE
    /\ stdin = NoInput /\ askPos = 1 /\ askPc = "idle"
    /\ askResult = FALSE /\ askPrompts = 0 /\ askSeen = NotRead
    /\ pc = "idle" /\ forceRenew = FALSE /\ domains = <<>> /\ now = 0
    /\ current = NoFiles /\ layout = FALSE /\ archive = NoFiles
    /\ action = "none" /\ question = "none" /\ asks = 0 /\ cert = NoCert
    /\ result = "none" /\ issued = 0 /\ faults = 0
    /\ currentAtStart = NoFiles /\ archivedFiles = {}
    /\ obtainOk = FALSE /\ obtainFailed = FALSE /\ wroteNew = {}
    /\ configOk = FALSE /\ contacted = FALSE /\ layoutAtStart = layout
    /\ archiveAtStart = NoFiles /\ cleanupCall = NoCall
    /\ zones \in Accounts
    /\ records = NoRecords /\ dnsRecords = {} /\ nextId = 1
    /\ lastOp = NoOp /\ opCount = 0
    /\ renewQueue = <<>> /\ renewIdx = 1 /\ renewLog = <<>>

\* the provider's state becomes what the call left
Becomes(r) ==
    /\ records' = r.records
    /\ dnsRecords' = r.dnsRecords
    /\ nextId' = r.nextId
    /\ lastOp' = r.op
    /\ opCount' = opCount + 1
    /\ UNCHANGED <<zones, archiveAtStart, cleanupCall, renewVars>>
    /\ UNCHANGED <<dmVars, askVars, mgrVars, histVars>>

\* the issuance service calls Present(domain, token, keyAuth)
DoPresent ==
    /\ opCount < MaxOps
    /\ \E domain \in OpDomains, token \in Tokens :
         \E env \in EnvsFor(zones, domain) :
          Becomes(Present(zones, records, dnsRecords, nextId, domain, token, env))

\* the issuance service calls CleanUp(domain, token, keyAuth)
DoCleanUp ==
    /\ opCount < MaxOps
    /\ \E domain \in OpDomains, token \in Tokens :
         \E env \in (IF token \in DOMAIN records THEN EnvsFor(zones, domain)
                     ELSE {QuietEnv}) :
          Becomes(CleanUp(zones, records, dnsRecords, nextId, domain, token, env))

NextDNS == DoPresent \/ DoCleanUp

SpecDNS == InitDNS /\ [][NextDNS]_vars

-----------------------------------------------------------------------------
(* cmd renew: the batch over the selected slots *)

\* most slots selected for one batch
MaxBatch == 3

\* the slots under the certificate directory
Slots == {"a.b", "c.d", "wildcard.e.f"}

\* certsToRenew: distinct slots in the order findCertificatesForRenewal found
\* them
Batches ==
    {q \in SeqsUpTo(Slots, MaxBatch) : \A i, j \in 1..Len(q) : q[i] = q[j] => i = j}

\* how the renewal of one slot ends: NewManager fails, GenerateCertificate
\* fails, or the certificate is renewed
Outcomes == {"manager", "generate", "renewed"}

\* a loop that returns at the first failure
NextSlotStopsAtFailure(idx, len, outcome) ==
    IF outcome = "renewed" THEN idx + 1 ELSE len + 1

\* runRenewCommand: the position of the loop after the attempt at idx ended
\* with outcome (continue after a failure, the next iteration otherwise)
NextSlot(idx, len, outcome) ==
    idx + 1

InitRenew ==
    /\ dmA = <<>> /\ dmB = <<>> /\ dmPc = "idle" /\ dmResult = FALSE
    /\ stdin = NoInput /\ askPos = 1 /\ askPc = "idle"
    /\ askResult = FALSE /\ askPrompts = 0 /\ askSeen = NotRead
    /\ pc = "loop" /\ forceRenew = TRUE /\ domains = <<>> /\ now = 0
    /\ current = NoFiles /\ layout = FALSE /\ archive = NoFiles
    /\ action = "none" /\ question = "none" /\ asks = 0 /\ cert = NoCert
    /\ result = "none" /\ issued = 0 /\ faults = 0
    /\ currentAtStart = NoFiles /\ archivedFiles = {}
    /\ obtainOk = FALSE /\ obtainFailed = FALSE /\ wroteNew = {}
    /\ configOk = FALSE /\ contacted = FALSE /\ layoutAtStart = layout
    /\ archiveAtStart = NoFiles /\ cleanupCall = NoCall
    /\ zones = <<>> /\ records = NoRecords /\ dnsRecords = {} /\ nextId = 1
    /\ lastOp = NoOp /\ opCount = 0
    /\ renewQueue \in Batches /\ renewIdx = 1 /\ renewLog = <<>>

\* one iteration of the loop over certsToRenew
RenewOne ==
    /\ pc = "loop"
    /\ renewIdx <= Len(renewQueue)
    /\ \E outcome \in Outcomes :
          /\ renewLog' = Append(renewLog, [slot |-> renewQueue[renewIdx],
                                           outcome |-> outcome])
          /\ renewIdx' = NextSlot(renewIdx, Len(renewQueue), outcome)
    /\ UNCHANGED <<renewQueue, archiveAtStart, cleanupCall, dnsVars>>
    /\ UNCHANGED <<dmVars, askVars, mgrVars, histVars>>

\* the loop is over (or nothing was selected) and runRenewCommand returns nil
RenewReturn ==
    /\ pc = "loop"
    /\ renewIdx > Len(renewQueue)
    /\ pc' = "done"
    /\ result' = "ok"
    /\ UNCHANGED <<forceRenew, domains, now, layout, current, archive, action,
                   question, asks, cert, issued, faults>>
    /\ UNCHANGED <<dmVars, askVars, histVars, extVars>>

NextRenew == RenewOne \/ RenewReturn

SpecRenew == InitRenew /\ [][NextRenew]_vars

-----------------------------------------------------------------------------
(* GetCertificatePathsForDomains applied to drawn domain lists *)

D_cd     == <<"c", ".", "d">>
D_starcd == <<"*", ".", "c", ".", "d">>

\* the validated domain lists of a request
SlotLists ==
    {l \in SeqsUpTo({D_ab, D_starab, D_wab, D_cd, D_starcd}, MaxListLen) : Len(l) > 0}

\* the certificate directory of the command (certs, /var/certs)
CertDirs == {<<"c">>, <<"/", "v", "/", "c">>}

InitSlot ==
    /\ dmA = <<>> /\ dmB = <<>> /\ dmPc = "idle" /\ dmResult = FALSE
    /\ stdin = NoInput /\ askPos = 1 /\ askPc = "idle"
    /\ askResult = FALSE /\ askPrompts = 0 /\ askSeen = NotRead
    /\ pc = "call" /\ forceRenew = FALSE /\ domains \in SlotLists /\ now = 0
    /\ current = NoFiles /\ layout = FALSE /\ archive = NoFiles
    /\ action = "none" /\ question = "none" /\ asks = 0 /\ cert = NoCert
    /\ \E dir \in CertDirs : result = [certDir |-> dir, CertDir |-> <<>>]
    /\ issued = 0 /\ faults = 0
    /\ currentAtStart = NoFiles /\ archivedFiles = {}
    /\ obtainOk = FALSE /\ obtainFailed = FALSE /\ wroteNew = {}
    /\ configOk = TRUE /\ contacted = FALSE /\ layoutAtStart = layout
    /\ ExtIdle

\* the call GetCertificatePathsForDomains(m.certDir, domains)
CallPaths ==
    /\ pc = "call"
    /\ result' = [result EXCEPT
                     !.CertDir = GetCertificatePathsForDomains(result.certDir, domains)]
    /\ pc' = "done"
    /\ UNCHANGED <<forceRenew, domains, now, layout, current, archive, action,
                   question, asks, cert, issued, faults>>
    /\ UNCHANGED <<dmVars, askVars, histVars, extVars>>

NextPaths == CallPaths

SpecSlot == InitSlot /\ [][NextPaths]_vars

-----------------------------------------------------------------------------
(* Properties *)

\* determineAction has decided or is waiting for the operator's answer
Determined == action # "none" \/ pc = "asking"

\* the certificate determineAction found in current/, as the claims speak of it
HadCertFile == "cert.pem" \in DOMAIN currentAtStart
HadCert     == HadCertFile /\ currentAtStart["cert.pem"].form = "ok"
OldCert     == currentAtStart["cert.pem"]

\* the set a domain list stands for: every entry trimmed and lower-cased
DomainSet(ds) == {ToLower(TrimSpace(d)) : d \in Range(ds)}

\* the names the old certificate carries: its common name and its DNS names
OldNames ==
    (IF OldCert.cn # <<>> THEN {OldCert.cn} ELSE {}) \cup Range(OldCert.dnsNames)

SameDomains == DomainSet(domains) = {ToLower(TrimSpace(d)) : d \in OldNames}

\* C1: a run of GenerateCertificate whose issuance (ObtainCertificate) failed
\* leaves current/ as it was before the run.
C1_FailedIssuanceLeavesCurrent ==
    (pc = "done" /\ obtainFailed) => current = currentAtStart

\* C2: the archive step moves files only once ObtainCertificate has returned a
\* certificate in this run, and before any new file is written into the slot.
C2_ArchiveOnlyAfterIssuance ==
    /\ archivedFiles # {} => obtainOk
    /\ pc = "archive" => wroteNew = {}

\* C3: with the force flag set determineAction returns Renew, whatever the
\* requested domains and the store hold, and never prompts the operator.
C3_ForceRenews ==
    forceRenew =>
        /\ pc # "asking" /\ asks = 0 /\ askPrompts = 0
        /\ action \in {"none", "Renew"}
        /\ pc \in {"archive", "obtain", "save", "meta", "cleanup"} => action = "Renew"

\* force is set, and without it the operator would have been asked
C3_Witness ==
    /\ forceRenew /\ action = "Renew" /\ HadCert
    /\ determineAction(FALSE, currentAtStart, domains, now).ask # "none"

\* C4: when current/ holds no cert.pem determineAction returns Renew, with the
\* force flag set or not, and does not prompt.
C4_NoCertificateRenews ==
    (~HadCertFile /\ Determined) => action = "Renew" /\ asks = 0 /\ askPrompts = 0

\* no cert.pem although other files are left in current/, force off
C4_Witness ==
    /\ ~HadCertFile /\ currentAtStart # NoFiles /\ ~forceRenew /\ action = "Renew"

\* C5: when the old certificate's domain set equals the requested set and its
\* expiresAt lies in the past, determineAction returns Renew and asks nothing.
C5_ExpiredRenewsUnprompted ==
    (HadCert /\ SameDomains /\ OldCert.notAfter < now /\ Determined) =>
        action = "Renew" /\ asks = 0 /\ askPrompts = 0

\* expired less than a day ago (daysRemaining is 0), force off
C5_Witness ==
    /\ HadCert /\ SameDomains /\ ~forceRenew /\ action = "Renew"
    /\ OldCert.notAfter < now /\ now - OldCert.notAfter < HoursPerDay

\* C6: force off, same domain set, not expired: determineAction asks exactly one
\* question, "renew now?" exactly when floor(hours until expiry / 24) <= 30 and
\* "renew anyway?" otherwise, and returns Renew on yes and Skip on no, on the
\* default and on a failed read.
C6_NotExpired == ~forceRenew /\ HadCert /\ SameDomains /\ OldCert.notAfter >= now

C6_ValidCertificateAsksOnce ==
    (C6_NotExpired /\ Determined) =>
        /\ asks = 1
        /\ question = IF (OldCert.notAfter - now) \div HoursPerDay <= RenewSoonDays
                      THEN "renew_now" ELSE "renew_anyway"
        /\ action # "none" =>
              /\ action = IF askResult THEN "Renew" ELSE "Skip"
              /\ askSeen.err => action = "Skip"
              /\ ~askSeen.err =>
                    LET typed == TrimSpace(stdin.lines[askPos - 1])
                    IN  /\ typed \in YesWords => action = "Renew"
                        /\ typed \in NoWords \cup {<<>>} => action = "Skip"

\* exactly 30 days remain, the operator says yes after one unrecognised answer
C6_Witness ==
    /\ C6_NotExpired /\ action = "Renew" /\ question = "renew_now"
    /\ (OldCert.notAfter - now) \div HoursPerDay = RenewSoonDays
    /\ askPos = 3

\* C7: force off and the old certificate parses but names another domain set:
\* determineAction asks to confirm the replacement and returns Replace on yes
\* and Skip otherwise, whatever the expiry; Replace is returned in no other case.
C7_Mismatch == ~forceRenew /\ HadCert /\ ~SameDomains

C7_MismatchAsksReplace ==
    /\ (C7_Mismatch /\ Determined) =>
          /\ asks = 1 /\ question = "replace"
          /\ action # "none" => action = IF askResult THEN "Replace" ELSE "Skip"
    /\ action = "Replace" => C7_Mismatch /\ askResult

\* an expired certificate for other domains, replaced after a yes
C7_Witness ==
    /\ C7_Mismatch /\ action = "Replace" /\ OldCert.notAfter < now

\* C8: force off and cert.pem exists but cannot be read or parsed:
\* determineAction returns Renew, asks nothing and returns no error.
C8_UnparseableRenews ==
    (~forceRenew /\ HadCertFile /\ ~HadCert /\ Determined) =>
        /\ action = "Renew" /\ asks = 0 /\ askPrompts = 0
        /\ pc = "done" /\ result = "error" => (obtainFailed \/ obtainOk)

\* cert.pem holds no PEM block and the run went on to issue
C8_Witness ==
    /\ ~forceRenew /\ HadCertFile /\ OldCert.form = "nopem"
    /\ action = "Renew" /\ pc = "obtain"

\* C9: DomainsMatch(A, B) holds exactly when the trimmed, lower-cased sets of A
\* and B are equal; the order of the entries and repeated entries do not
\* matter, and the arguments can be exchanged.
Reverse(s) == [i \in 1..Len(s) |-> s[Len(s) + 1 - i]]

C9_DomainsMatchIsSetEquality ==
    dmPc = "done" =>
        /\ dmResult = (DomainSet(dmA) = DomainSet(dmB))
        /\ DomainsMatch(dmB, dmA) = dmResult
        /\ DomainsMatch(Reverse(dmA), dmB) = dmResult
        /\ DomainsMatch(dmA \o dmA, dmB) = dmResult

\* lists of different length and order that match through case and white space
C9_Witness ==
    /\ dmPc = "done" /\ dmResult
    /\ Len(dmA) # Len(dmB) /\ dmA # <<>> /\ Range(dmA) \cap Range(dmB) = {}

\* C10: AskUserConfirmation returns true for y and yes in any letter case, false
\* for n and no in any letter case and for an empty line, prompts again on any
\* other line, returns false as soon as a read fails, and terminates on every
\* stream that ends. A line counts without its line end and surrounding blanks.
Typed(i) == TrimSpace(stdin.lines[i])
Recognised(i) == Typed(i) \in YesWords \cup NoWords \cup {<<>>}

C10_AskSafe ==
    /\ askPc = "returned" /\ ~askSeen.err =>
          /\ askPos - 1 \in 1..Len(stdin.lines)
          /\ Recognised(askPos - 1)
          /\ askResult = (Typed(askPos - 1) \in YesWords)
          /\ \A i \in 1..(askPos - 2) : ~Recognised(i)
          /\ askPrompts = askPos - 1
    /\ askPc = "returned" /\ askSeen.err =>
          /\ ~askResult
          /\ askPos = Len(stdin.lines) + 1
          /\ \A i \in 1..Len(stdin.lines) : ~Recognised(i)
          /\ askPrompts = askPos
    /\ askPc = "reading" =>
          /\ \A i \in 1..(askPos - 1) : ~Recognised(i)
          /\ askPrompts = askPos - 1

C10_AskUserConfirmation == []C10_AskSafe /\ <>(askPc = "returned")

\* a yes in mixed case accepted after one line that was not an answer
C10_Witness ==
    /\ askPc = "returned" /\ askResult /\ askPos = 3
    /\ stdin.lines[2] = <<"Y", "e", "S">>

\* the archive entries a call at time t makes of the files in fs
ArchivedAs(t, fs) == {<<t, f>> : f \in fs}

\* C11: ArchiveOldCertificate on a slot without current/cert.pem returns
\* success and changes nothing, whatever else current/ holds; on a slot with
\* cert.pem it does not fail unless a rename fails, and when it succeeds
\* exactly the files that existed are in archive/ under the prefix of the one
\* timestamp of the call, each under its own name, and nothing else changed.
C11_ArchiveMovesWhatExists ==
    pc = "done" =>
        IF "cert.pem" \notin DOMAIN currentAtStart
        THEN result = "ok" /\ current = currentAtStart /\ archive = archiveAtStart
        ELSE /\ faults = 0 => result = "ok"
             /\ result = "ok" =>
                   /\ current = NoFiles
                   /\ archivedFiles = DOMAIN currentAtStart
                   /\ DOMAIN archive = DOMAIN archiveAtStart
                                         \cup ArchivedAs(now, DOMAIN currentAtStart)
                   /\ \A f \in DOMAIN currentAtStart :
                         archive[<<now, f>>] = currentAtStart[f]
                   /\ \A k \in DOMAIN archiveAtStart \ ArchivedAs(now, FileNames) :
                         archive[k] = archiveAtStart[k]

\* a slot with only cert.pem and privkey.pem was archived without error
C11_Witness ==
    /\ pc = "done" /\ result = "ok" /\ faults = 0
    /\ DOMAIN currentAtStart = {"cert.pem", "privkey.pem"}
    /\ archiveAtStart = EarlierArchive /\ now = 7
    /\ DOMAIN archive = DOMAIN EarlierArchive
                          \cup {<<7, "cert.pem">>, <<7, "privkey.pem">>}

\* the files of archive a that were modified strictly before t
FilesOlderThan(a, t) == {k \in DOMAIN a : a[k].form # "dir" /\ a[k].mtime < t}

\* C12: a call of CleanupOldArchives with retentionDays > 0 in which the
\* directory is read and every removal succeeds deletes exactly the files
\* modified strictly before now - retentionDays days and keeps every other
\* entry (with 30 days the file 31 days old goes and the file 29 days old
\* stays); a call with retentionDays <= 0 deletes nothing.
C12_CleanupDeletesExpired ==
    (pc = "done" /\ cleanupCall.readErr # "other" /\ cleanupCall.stuck = {}) =>
        /\ result = "ok"
        /\ IF cleanupCall.keepDays <= 0
           THEN archive = archiveAtStart
           ELSE LET gone == FilesOlderThan(archiveAtStart,
                                now - cleanupCall.keepDays * HoursPerDay)
                IN  archive = Restrict(archiveAtStart, DOMAIN archiveAtStart \ gone)
        /\ cleanupCall.keepDays = 30 =>
              \A k \in DOMAIN archiveAtStart :
                 /\ archiveAtStart[k] = PartFile("cert.pem", 0, Aged(31, 0))
                       => k \notin DOMAIN archive
                 /\ archiveAtStart[k] = PartFile("cert.pem", 0, Aged(29, 0))
                       => k \in DOMAIN archive

\* with 30 days, the files 31 days and 30 days and one hour old were deleted,
\* the files 29 and exactly 30 days old and the subdirectory were kept
C12_Witness ==
    /\ pc = "done" /\ cleanupCall = [keepDays |-> 30, readErr |-> "none", stuck |-> {}]
    /\ archiveAtStart = ArchivePool
    /\ DOMAIN archive = {<<2, "cert.pem">>, <<3, "cert.pem">>, <<5, "old">>}

\* C13: CleanupOldArchives returns success when archive/ does not exist; when
\* removals of expired files fail it still removes every other expired file
\* and returns success.
C13_CleanupToleratesFailures ==
    (pc = "done" /\ cleanupCall.readErr # "other") =>
        /\ result = "ok"
        /\ cleanupCall.readErr = "notexist" => archive = archiveAtStart
        /\ cleanupCall.keepDays > 0 =>
              LET old == FilesOlderThan(archiveAtStart,
                             now - cleanupCall.keepDays * HoursPerDay)
              IN  DOMAIN archive = DOMAIN archiveAtStart \ (old \ cleanupCall.stuck)

\* the removal of the file 31 days old failed, the other expired file was
\* removed and the call returned success
C13_Witness ==
    /\ pc = "done" /\ result = "ok"
    /\ cleanupCall = [keepDays |-> 30, readErr |-> "none",
                      stuck |-> {<<1, "cert.pem">>}]
    /\ archiveAtStart = ArchivePool
    /\ DOMAIN archive = DOMAIN ArchivePool \ {<<4, "cert.pem">>}

\* C14: after a successful save, fullchain.pem holds the content of cert.pem
\* followed by the content of chain.pem as written, whatever the leaf and
\* issuer bytes are.
C14_FullchainIsCertThenChain ==
    (pc = "done" /\ result = "ok") =>
        current["fullchain.pem"] = current["cert.pem"] \o current["chain.pem"]

\* the issuer certificate of the saved resource
Issuer == cert.IssuerCertificate

\* C15: after a successful save, chain.pem is empty when the issuer
\* certificate is empty or all white space; otherwise it is the issuer
\* certificate from its first to its last byte that is not white space,
\* followed by exactly one line feed.
C15_ChainIsTrimmedIssuer ==
    (pc = "done" /\ result = "ok") =>
        IF \A k \in 1..Len(Issuer) : IsSpace(Issuer[k])
        THEN current["chain.pem"] = <<>>
        ELSE \E i \in 1..Len(Issuer), j \in 1..Len(Issuer) :
                /\ i <= j
                /\ ~IsSpace(Issuer[i]) /\ ~IsSpace(Issuer[j])
                /\ \A k \in 1..(i - 1) : IsSpace(Issuer[k])
                /\ \A k \in (j + 1)..Len(Issuer) : IsSpace(Issuer[k])
                /\ current["chain.pem"] = SubSeq(Issuer, i, j) \o <<"\n">>

\* an issuer certificate with white space on both sides was saved
C15_Witness ==
    /\ pc = "done" /\ result = "ok"
    /\ Issuer = <<"\n", "I", " ">>
    /\ current["chain.pem"] = <<"I", "\n">>

\* the run found a certificate in current/ and metadata it could read
HadMetadata ==
    /\ HadCertFile
    /\ "cert.json" \in DOMAIN currentAtStart
    /\ currentAtStart["cert.json"].form = "ok"

\* C16: the metadata a successful run of GenerateCertificate writes carries
\* renewal counter 0 on a first issuance and the earlier counter plus one on a
\* renewal of the slot.
C16_RenewalCounter ==
    (/\ pc = "done" /\ result = "ok" /\ obtainOk
     /\ "cert.json" \in DOMAIN current
     /\ current["cert.json"].gen = cert.gen) =>
        current["cert.json"].renewalCount =
            IF HadMetadata THEN currentAtStart["cert.json"].renewalCount + 1 ELSE 0

\* the labels of the domain being resolved
Labels == Split(lastOp.domain, ".")

\* the suffix of the domain that starts at label i (labels[i:], counted from 1)
Candidate(i) == Join(SubSeq(Labels, i, Len(Labels)))

\* the provider answered the j-th query with at least one zone
Reported(j) ==
    /\ lastOp.calls[j].ok
    /\ \E k \in 1..Len(zones) : zones[k].name = lastOp.calls[j].arg

\* C17: getZoneIDAutomatic queries the suffixes labels[i:] of the domain in the
\* order i = 0 .. len(labels)-2, never the last label alone, and returns the
\* zone of the first queried suffix for which the provider reports a zone;
\* when no suffix is reported it fails. With zones example.com and
\* sub.example.com, app.sub.example.com resolves to sub.example.com.
C17_AutomaticZoneResolution ==
    pc = "done" =>
        LET n == Len(lastOp.calls)
        IN  /\ n <= Len(Labels) - 1 \/ n = 0
            /\ \A j \in 1..n : /\ lastOp.calls[j].call = "ListZones"
                                /\ lastOp.calls[j].arg = Candidate(j)
            /\ IF lastOp.err
               THEN /\ n = Len(Labels) - 1 \/ Len(Labels) < 2
                    /\ \A j \in 1..n : ~Reported(j)
                    /\ lastOp.zone = ""
               ELSE /\ n >= 1
                    /\ Reported(n)
                    /\ \A j \in 1..(n - 1) : ~Reported(j)
                    /\ \E k \in 1..Len(zones) :
                          /\ zones[k].name = Candidate(n)
                          /\ zones[k].id = lastOp.zone
            /\ (/\ lastOp.domain = N_psec
                /\ {zones[k] : k \in 1..Len(zones)} = {Zone("ze", N_ec), Zone("zs", N_sec)}
                /\ \A j \in 1..n : lastOp.calls[j].ok)
                  => (~lastOp.err /\ lastOp.zone = "zs")

\* app.sub.example.com was resolved to sub.example.com by the second query
C17_Witness ==
    /\ pc = "done" /\ lastOp.domain = N_psec
    /\ zones = <<Zone("ze", N_ec), Zone("zs", N_sec)>>
    /\ ~lastOp.err /\ lastOp.zone = "zs"
    /\ Len(lastOp.calls) = 2 /\ lastOp.calls[1].ok

\* the step is a call of the provider's operation name
Called(name) == opCount' = opCount + 1 /\ lastOp'.op = name

\* C18: a CleanUp whose token is not in the provider's table returns success,
\* calls the provider's API not at all (no zone listing, no deletion) and
\* leaves the table and the account's records as they were.
C18_CleanUpUnknownToken ==
    [][(Called("CleanUp") /\ lastOp'.token \notin DOMAIN records) =>
          /\ ~lastOp'.err
          /\ lastOp'.calls = <<>>
          /\ ~lastOp'.prompted
          /\ records' = records
          /\ dnsRecords' = dnsRecords]_vars

\* CleanUp returned for a token that was not in the table, which holds another
\* token, without any API call
C18_Witness ==
    /\ lastOp.op = "CleanUp" /\ ~lastOp.err /\ lastOp.calls = <<>>
    /\ lastOp.token = "t2"
    /\ DOMAIN records = {"t1"}
    /\ dnsRecords # {}

\* the last API call of the step
LastCall == lastOp'.calls[Len(lastOp'.calls)]

\* C19: a successful Present leaves the table mapping the token to the id the
\* provider assigned to the record it created; a successful CleanUp of a
\* token in the table deletes exactly the record with the id the table held
\* and removes the token from the table, so that a second CleanUp of the
\* token finds nothing.
C19_PresentThenCleanUp ==
    [][/\ (Called("Present") /\ ~lastOp'.err) =>
             \E id \in 1..MaxOps :
                /\ \A r \in dnsRecords : r.id # id
                /\ LastCall = Call("CreateDNSRecord", lastOp'.zone, TRUE)
                /\ dnsRecords' = dnsRecords \cup {Txt(id, lastOp'.zone)}
                /\ DOMAIN records' = DOMAIN records \cup {lastOp'.token}
                /\ records'[lastOp'.token] = id
                /\ \A t \in DOMAIN records \ {lastOp'.token} : records'[t] = records[t]
       /\ (Called("CleanUp") /\ ~lastOp'.err /\ lastOp'.token \in DOMAIN records) =>
             LET id == records[lastOp'.token]
             IN  /\ LastCall = Call("DeleteDNSRecord", id, TRUE)
                 /\ \E r \in dnsRecords : r.id = id
                 /\ dnsRecords' = {r \in dnsRecords : r.id # id}
                 /\ records' = Restrict(records, DOMAIN records \ {lastOp'.token})]_vars

\* a record was presented and cleaned up, and the second CleanUp of its token
\* made no call
C19_Witness ==
    /\ opCount = 3 /\ nextId = 2
    /\ lastOp.op = "CleanUp" /\ ~lastOp.err /\ lastOp.calls = <<>>
    /\ records = NoRecords /\ dnsRecords = {}

\* C20: the batch attempts the selected slots one at a time in their order;
\* a failure of manager creation or of generation does not stop it, and when
\* the command returns every selected slot has been attempted exactly once.
C20_BatchAttemptsEverySlot ==
    /\ Len(renewLog) = renewIdx - 1
    /\ Len(renewLog) <= Len(renewQueue)
    /\ \A i \in 1..Len(renewLog) : renewLog[i].slot = renewQueue[i]
    /\ pc = "done" =>
          /\ Len(renewLog) = Len(renewQueue)
          /\ result = "ok"

\* a batch of three returned after the first two slots failed, one in
\* generation and one in manager creation
C20_Witness ==
    /\ pc = "done" /\ Len(renewQueue) = 3
    /\ renewLog[1].outcome = "generate"
    /\ renewLog[2].outcome = "manager"
    /\ renewLog[3].outcome = "renewed"

\* a step of the run in which the operation at pc failed
FailedAt(step) == pc = step /\ faults' = faults + 1

\* the run returned after issuance and the four writes succeeded
SavedAll == pc = "done" /\ obtainOk /\ wroteNew = SavedFiles

\* C21: GenerateCertificate returns an error when the creation of the slot's
\* directories fails or the write of one of the four certificate files fails;
\* a failure of archiving, of the metadata save or of the archive cleanup does
\* not end the run with an error, and a run whose issuance and four writes
\* succeeded reports success.
C21_FatalAndNonFatalFailures ==
    /\ [](SavedAll => result = "ok")
    /\ [][/\ (FailedAt("mkdir") \/ FailedAt("save")) =>
                (pc' = "done" /\ result' = "error")
          /\ (FailedAt("archive") \/ FailedAt("meta")) =>
                (pc' # "done" /\ result' = result)
          /\ FailedAt("cleanup") => (pc' = "done" /\ result' = "ok")]_vars

\* a run reported success although archiving and the metadata save failed
C21_Witness ==
    /\ SavedAll /\ result = "ok" /\ faults = 2
    /\ HadCertFile /\ archivedFiles # DOMAIN currentAtStart
    /\ "cert.json" \notin DOMAIN current

\* a domain ValidateDomainName rejects: empty, with a blank, or of one label
Rejected(d) == d = <<>> \/ " " \in Range(d) \/ "." \notin Range(d)

\* the run was started with a configuration error: config.Load failed, the
\* domain list is empty, or it holds a rejected domain
ConfigError ==
    \/ ~configOk
    \/ Len(domains) = 0
    \/ \E i \in 1..Len(domains) : Rejected(domains[i])

\* C22: a run started with a configuration error never goes past validation:
\* it returns an error, no ACME registration and no provider call is made, and
\* the slot's directories and the files of current/ and archive/ are as they
\* were before the run.
C22_ConfigErrorBeforeAnyEffect ==
    (pc # "idle" /\ ConfigError) =>
        /\ pc \in {"validate", "done"}
        /\ pc = "done" => result = "error"
        /\ ~contacted
        /\ issued = 0 /\ ~obtainOk /\ ~obtainFailed
        /\ layout = layoutAtStart
        /\ current = currentAtStart
        /\ archive = NoFiles

\* a request with an empty domain in its list failed on a slot that holds a
\* certificate
C22_Witness ==
    /\ pc = "done" /\ result = "error" /\ configOk
    /\ domains = <<D_ab, D_empty>>
    /\ HadCertFile

\* the positions of the wildcard entries of the requested list
WildcardEntries == {i \in 1..Len(domains) : HasPrefix(domains[i], <<"*", ".">>)}

\* the slot directory under the certificate directory for the name n
SlotOf(n) == result.certDir \o <<"/">> \o n

Covers(name, domain) == domain = name \/ HasSuffix(domain, <<".">> \o name)

\* the zones of the account that cover the domain being resolved
CoveringZones == SelectSeq(zones, LAMBDA z : Covers(z.name, lastOp.domain))

\* the candidates of the fallback as the filter by covering zones gives them
CoveringCandidates == IF Len(CoveringZones) > 0 THEN CoveringZones ELSE zones

\* the positions of the full zone listing among the calls of the resolution
FullListings == {j \in 1..Len(lastOp.calls) : lastOp.calls[j].arg = <<>>}

\* C24: when GetZoneIDForDomain has entered the interactive fallback, every
\* query of the automatic phase was made and none reported a zone; the filter
\* of the fallback keeps exactly the zones that cover the domain (equal to it
\* or a dotted suffix of it), and the zone returned is one of the kept zones,
\* or of the full list when none is kept, returned silently only when that
\* candidate list has one zone.
C24_FallbackFilter ==
    (pc = "done" /\ FullListings # {}) =>
        /\ \A j \in FullListings :
              /\ j = Len(lastOp.calls)
              /\ j - 1 = (IF Len(Labels) < 2 THEN 0 ELSE Len(Labels) - 1)
              /\ \A i \in 1..(j - 1) : ~Reported(i)
        /\ MatchingZones(zones, lastOp.domain) = CoveringZones
        /\ ~lastOp.err =>
              /\ \E k \in 1..Len(CoveringCandidates) :
                    CoveringCandidates[k].id = lastOp.zone
              /\ ~lastOp.prompted <=> Len(CoveringCandidates) = 1

\* the provider calls of the last Present or CleanUp that returned an error
FailedCalls == {j \in 1..Len(lastOp.calls) : ~lastOp.calls[j].ok}

\* C25: during a Present or a CleanUp no provider call is made a second time,
\* and when any of its provider calls (a zone-listing query, the record
\* creation, the record deletion) returned an error, the Present or CleanUp
\* returns an error.
C25_ProviderErrorsSurface ==
    lastOp.op \in {"Present", "CleanUp"} =>
        /\ \A i, j \in 1..Len(lastOp.calls) :
              (lastOp.calls[i].call = lastOp.calls[j].call
                 /\ lastOp.calls[i].arg = lastOp.calls[j].arg) => i = j
        /\ FailedCalls # {} => lastOp.err

\* C26: when determineAction returns Skip, GenerateCertificate reports
\* success at once: no issuance was attempted and current/ and archive/ hold
\* what they held before the run; Skip is returned only after one question
\* was put to the operator and answered with no, with an empty line, or the
\* read of the answer failed.
C26_SkipChangesNothing ==
    action = "Skip" =>
        /\ pc = "done" /\ result = "ok"
        /\ issued = 0 /\ ~obtainOk /\ ~obtainFailed
        /\ current = currentAtStart /\ archive = NoFiles
        /\ archivedFiles = {} /\ wroteNew = {}
        /\ asks = 1 /\ askPrompts >= 1 /\ ~askResult
        /\ askSeen.err \/ Typed(askPos - 1) \in NoWords \cup {<<>>}

\* the operator declined to replace a certificate for another domain set
C26_Witness ==
    /\ pc = "done" /\ action = "Skip" /\ result = "ok"
    /\ question = "replace" /\ ~askSeen.err
    /\ HadCertFile /\ current = currentAtStart

\* C27: after a run of GenerateCertificate, whatever failed during it,
\* privkey.pem and chain.pem in current/ are of the same issuance as cert.pem
\* whenever they stand next to it (checked for the runs that found a
\* certificate with its private key in current/).
C27_CertAndKeyOfOneIssuance ==
    (pc = "done" /\ {"cert.pem", "privkey.pem"} \subseteq DOMAIN currentAtStart) =>
        \A f \in {"privkey.pem", "chain.pem"} :
            {"cert.pem", f} \subseteq DOMAIN current =>
                current[f].gen = current["cert.pem"].gen

\* the file f that current/ held before the run is kept: it is in archive/
\* under the name this run gave it, or it is still in current/ as it was
Kept(f) ==
    \/ /\ <<now, f>> \in DOMAIN archive
       /\ archive[<<now, f>>] = currentAtStart[f]
    \/ /\ f \in DOMAIN current
       /\ current[f] = currentAtStart[f]

\* the file f that current/ held before the run is older than the retention
\* period at the time of the run
PastRetention(f) == currentAtStart[f].mtime < now - RetentionDays * HoursPerDay

\* C28: after a run of GenerateCertificate that found a certificate in
\* current/, issued a new one and reports success, every file current/ held
\* before the run is kept (in archive/, or untouched in current/) unless it
\* is older than the 30 days of retention, also when the archive step failed.
C28_NoGenerationLost ==
    (pc = "done" /\ result = "ok" /\ obtainOk /\ HadCertFile) =>
        \A f \in DOMAIN currentAtStart : Kept(f) \/ PastRetention(f)

\* C29: once every Present has been followed by a successful CleanUp of its
\* token, no TXT record created by a Present is left at the provider, also
\* when a token was presented more than once before its CleanUp. A token is
\* in the table exactly while its last successful Present has no successful
\* CleanUp after it, so the sequences the claim speaks of end with the table
\* empty.
C29_CleanedUpLeavesNoRecord ==
    records = NoRecords => dnsRecords = {}

\* C30: a zone GetZoneIDForDomain returns without asking the operator, from
\* the automatic phase or as the single candidate of the fallback, covers
\* the domain: its name is the domain or a parent of it.
C30_SilentZoneCoversDomain ==
    (pc = "done" /\ ~lastOp.err /\ ~lastOp.prompted) =>
        \E k \in 1..Len(zones) :
            /\ zones[k].id = lastOp.zone
            /\ Covers(zones[k].name, lastOp.domain)

====
